---- MODULE Spec2Model ----
(***************************************************************************)
(* Model of the IP address pool (types.IPPool over types.NetPrefix) and of *)
(* the peer registry (wireguard.PeerManager) of sentinel-go-sdk.           *)
(*                                                                         *)
(* Addresses are netip.Addr values: a family (4 or 6) and a value of       *)
(* AddrBits bits for IPv4 (32 in the program) and Addr6Bits bits for IPv6  *)
(* (128); ZeroAddr is the zero netip.Addr, which belongs to no family and  *)
(* to no prefix.  An int64 has IntBits bits (64): more than an IPv4        *)
(* address, no more than an IPv6 one.                                      *)
(***************************************************************************)
EXTENDS Integers, Sequences, FiniteSets, TLC

\* Width in bits of an IPv4 address (BitLen of an IPv4 netip.Addr).
AddrBits == 2

\* Explicit Reserve calls that may succeed on one pool after construction.
MaxReserve == 1

\* Longest recycled queue an outside caller's direct Put may build.
MaxQueue == 2

\* Non-empty peer identities.
NumPeers == 2

\* Most goroutines that call PeerManager.Put at the same time.
MaxThreads == 2

\* Width in bits of the int that counts a worker's consecutive failures.
RetryBits == 3

\* Most workers registered with a Scheduler.
MaxWorkers == 2

VARIABLES
    pools,      \* PeerManager.pools: sequence of IPPool objects
    m,          \* PeerManager.m: identity -> Peer.Addrs
    ret,        \* the last completed call: its name, the identity given to a
                \* registry call, and the values it returned
    rwm,        \* PeerManager.rwm: 0 when free, t > 0 when goroutine t holds it
                \* for writing, -k when k goroutines hold it for reading
    th,         \* goroutines inside a call: the call, position and locals
    np,         \* the NetPrefix a caller of the NetPrefix methods holds
    sched       \* the cron.Scheduler: isRunning, stopSignal, workers, mu, wg

vars == <<pools, m, ret, rwm, th, np, sched>>

\* cron.NewScheduler(): not running, an open stop channel and no workers.
NoWorkers == [name \in {} |-> [maxRetries |-> 0, failing |-> FALSE]]

NewScheduler ==
    [isRunning |-> FALSE, stopSignal |-> "open", workers |-> NoWorkers,
     mu |-> 0, wg |-> 0]

----------------------------------------------------------------------------
(* net/netip values *)

Families == {4, 6}

\* Width of int64: an IPv4 block size always fits, with room to spare.
IntBits == AddrBits + 2

\* Width in bits of an IPv6 address: 1 << Addr6Bits does not fit an int64.
Addr6Bits == AddrBits + 2

\* Bits of an address of family fam; the zero Addr has none.
Width(fam) == IF fam = 4 THEN AddrBits ELSE IF fam = 6 THEN Addr6Bits ELSE 0

MaxVal(fam) == 2 ^ Width(fam) - 1

ZeroAddr == [fam |-> 0, val |-> 0]

Addrs == {a \in [fam : Families, val : 0 .. MaxVal(6)] : a.val <= MaxVal(a.fam)}

\* netip.Prefix{}: the value NewNetPrefixFromString("") wraps.
ZeroPrefix == [fam |-> 0, addr |-> 0, bits |-> -1]

\* Prefixes netip.ParsePrefix accepts: an address and 0..BitLen mask bits.  The
\* address is the block's first, second or last one ("10.8.0.0/24",
\* "10.8.0.1/24", "10.8.0.255/24").
Prefixes ==
    {p \in [fam : Families, addr : 0 .. MaxVal(6), bits : 0 .. Addr6Bits] :
        /\ p.addr <= MaxVal(p.fam)
        /\ p.bits <= Width(p.fam)
        /\ p.addr % (2 ^ (Width(p.fam) - p.bits))
               \in {0, 1, 2 ^ (Width(p.fam) - p.bits) - 1}}

IsValid(a) == a.fam # 0

Is4(a) == a.fam = 4

BitLen(a) == Width(a.fam)

\* netip.Addr.Next: the zero Addr after the last address of the family.
Next_(a) ==
    IF ~IsValid(a) \/ a.val = MaxVal(a.fam) THEN ZeroAddr
    ELSE [a EXCEPT !.val = @ + 1]

PrefixAddr(p) == IF p.fam = 0 THEN ZeroAddr ELSE [fam |-> p.fam, val |-> p.addr]

Bits(p) == p.bits

\* netip.Prefix.Masked().Addr(): host bits cleared; zero Addr for Prefix{}.
MaskedVal(w, v, bits) == (v \div (2 ^ (w - bits))) * (2 ^ (w - bits))

\* netip.Prefix.Contains: same family and the same leading Bits() bits.
Contains(p, a) ==
    /\ p.fam # 0
    /\ a.fam = p.fam
    /\ MaskedVal(Width(p.fam), a.val, p.bits) = MaskedVal(Width(p.fam), p.addr, p.bits)

RECURSIVE BitOr(_, _)
BitOr(x, y) ==
    IF x = 0 THEN y
    ELSE IF y = 0 THEN x
    ELSE (IF x % 2 = 1 \/ y % 2 = 1 THEN 1 ELSE 0) + 2 * BitOr(x \div 2, y \div 2)

----------------------------------------------------------------------------
(* types.NetPrefix *)

\* int64(1) << diff for diff >= 0: the bit shifted into the sign position gives
\* the least int64, a bit shifted further out gives 0.
Int64Shl1(diff) ==
    IF diff >= IntBits THEN 0
    ELSE IF diff = IntBits - 1 THEN 0 - 2 ^ (IntBits - 1)
    ELSE 2 ^ diff

NetPrefixLen(p) ==
    LET diff == BitLen(PrefixAddr(p)) - Bits(p)
    IN  IF diff < 0 THEN 0 ELSE Int64Shl1(diff)

NetworkAddr(p) ==
    IF p.fam = 0 THEN ZeroAddr
    ELSE [fam |-> p.fam, val |-> MaskedVal(Width(p.fam), p.addr, p.bits)]

\* Mutant of BroadcastAddr: the block size is added to the prefix's own
\* address, not or-ed into the network address.
BroadcastAddrAdds(p) ==
    IF ~Is4(PrefixAddr(p)) THEN [err |-> "not applicable", addr |-> ZeroAddr]
    ELSE LET size == NetPrefixLen(p) - 1
         IN  IF size = 0 THEN [err |-> "nil", addr |-> PrefixAddr(p)]
             ELSE [err  |-> "nil",
                   addr |-> [fam |-> 4, val |-> PrefixAddr(p).val + size]]

\* [err, addr]: err = "nil" on success.
BroadcastAddr(p) ==
    IF ~Is4(PrefixAddr(p)) THEN [err |-> "not applicable", addr |-> ZeroAddr]
    ELSE LET size == NetPrefixLen(p) - 1
         IN  IF size = 0 THEN [err |-> "nil", addr |-> PrefixAddr(p)]
             ELSE [err  |-> "nil",
                   addr |-> [fam |-> 4, val |-> BitOr(NetworkAddr(p).val, size)]]

\* The block size above which Addrs refuses to enumerate (1 << 16): less than
\* the largest IPv4 block.
maxNetPrefixSize == 2 ^ (AddrBits - 1)

ErrTooLarge == "prefix block size is too large"
ErrParse == "failed to parse net prefix"

\* for addr := ...; p.Contains(addr); addr = addr.Next() { append }
RECURSIVE AddrsLoop(_, _, _)
AddrsLoop(p, addr, addrs) ==
    IF ~Contains(p, addr) THEN addrs
    ELSE AddrsLoop(p, Next_(addr), Append(addrs, addr))

\* [err, addrs]
NetPrefixAddrs(p) ==
    IF NetPrefixLen(p) > maxNetPrefixSize
    THEN [err |-> ErrTooLarge, addrs |-> <<>>]
    ELSE [err |-> "nil", addrs |-> AddrsLoop(p, NetworkAddr(p), <<>>)]

Validate(p) == "nil"

\* Strings given to NewNetPrefixFromString: "" (written as the NetPrefix{} it
\* yields), the text of a prefix (written as the netip.Prefix it parses to)
\* and text that netip.ParsePrefix rejects.
Malformed == [fam |-> 0, addr |-> 0, bits |-> 0]

PrefixStrings == Prefixes \cup {ZeroPrefix, Malformed}

\* [err, prefix]; prefix is meaningful when err = "nil".
NewNetPrefixFromString(s) ==
    IF s = ZeroPrefix THEN [err |-> "nil", prefix |-> ZeroPrefix]
    ELSE IF s = Malformed THEN [err |-> ErrParse, prefix |-> ZeroPrefix]
    ELSE IF Validate(s) # "nil" THEN [err |-> Validate(s), prefix |-> ZeroPrefix]
    ELSE [err |-> "nil", prefix |-> s]

----------------------------------------------------------------------------
(* types.IPPool: each operator is the body of the method, run under p.m   *)
(* (field m of a pool: 0 when unlocked, else the goroutine holding it).    *)
(* A result is [pool, err, addr]: the pool afterwards and what is returned. *)

ErrOutside == "addr is outside of prefix"
ErrInUse == "addr is already assigned or reserved"
ErrEmpty == "pool is empty"
ErrNotAssigned == "addr is not assigned"

\* Mutant of IPPoolReserve: success is returned without recording the address.
IPPoolReserveNoMark(p, addr) ==
    IF ~Contains(p.prefix, addr)
    THEN [pool |-> p, err |-> ErrOutside, addr |-> addr]
    ELSE IF addr \in p.assigned \/ addr \in p.reserved
    THEN [pool |-> p, err |-> ErrInUse, addr |-> addr]
    ELSE [pool |-> p, err |-> "nil", addr |-> addr]

\* Mutant of IPPoolReserve: an assigned address is not refused.
IPPoolReserveIgnoresAssigned(p, addr) ==
    IF ~Contains(p.prefix, addr)
    THEN [pool |-> p, err |-> ErrOutside, addr |-> addr]
    ELSE IF addr \in p.reserved
    THEN [pool |-> p, err |-> ErrInUse, addr |-> addr]
    ELSE [pool |-> [p EXCEPT !.reserved = @ \cup {addr}], err |-> "nil", addr |-> addr]

IPPoolReserve(p, addr) ==
    IF ~Contains(p.prefix, addr)
    THEN [pool |-> p, err |-> ErrOutside, addr |-> addr]
    ELSE IF addr \in p.assigned \/ addr \in p.reserved
    THEN [pool |-> p, err |-> ErrInUse, addr |-> addr]
    ELSE [pool |-> [p EXCEPT !.reserved = @ \cup {addr}], err |-> "nil", addr |-> addr]

\* Mutant of GetScan: the cursor is not moved past the address returned.
RECURSIVE GetScanStale(_)
GetScanStale(p) ==
    IF ~Contains(p.prefix, p.addr)
    THEN [pool |-> p, err |-> ErrEmpty, addr |-> ZeroAddr]
    ELSE IF p.addr \notin p.reserved
    THEN [pool |-> p, err |-> "nil", addr |-> p.addr]
    ELSE GetScanStale([p EXCEPT !.addr = Next_(p.addr)])

\* Mutant of GetScan: reserved addresses are not skipped.
GetScanNoSkip(p) ==
    IF ~Contains(p.prefix, p.addr)
    THEN [pool |-> p, err |-> ErrEmpty, addr |-> ZeroAddr]
    ELSE [pool |-> [p EXCEPT !.addr = Next_(p.addr)], err |-> "nil", addr |-> p.addr]

\* Mutant of GetScan: the loop gives up at the first reserved address.
GetScanStopsAtReserved(p) ==
    IF ~Contains(p.prefix, p.addr) \/ p.addr \in p.reserved
    THEN [pool |-> p, err |-> ErrEmpty, addr |-> ZeroAddr]
    ELSE [pool |-> [p EXCEPT !.addr = Next_(p.addr)], err |-> "nil", addr |-> p.addr]

\* Mutant of GetScan: at the end of the prefix the cursor goes back to the
\* network address.
RECURSIVE GetScanRewinds(_)
GetScanRewinds(p) ==
    IF ~Contains(p.prefix, p.addr)
    THEN [pool |-> [p EXCEPT !.addr = NetworkAddr(p.prefix)], err |-> ErrEmpty,
          addr |-> ZeroAddr]
    ELSE LET addr == p.addr
             q    == [p EXCEPT !.addr = Next_(p.addr)]
         IN  IF addr \notin q.reserved
             THEN [pool |-> q, err |-> "nil", addr |-> addr]
             ELSE GetScanRewinds(q)

\* How many times the for loop of Get runs "addr, p.addr = p.addr, p.addr.Next()".
RECURSIVE ScanSteps(_)
ScanSteps(p) ==
    IF ~Contains(p.prefix, p.addr) THEN 0
    ELSE IF p.addr \notin p.reserved THEN 1
    ELSE 1 + ScanSteps([p EXCEPT !.addr = Next_(p.addr)])

\* The cursor steps of one Get: none when the queue has an address.
CursorSteps(p) == IF Len(p.unassigned) > 0 THEN 0 ELSE ScanSteps(p)

\* The for loop of Get: step the cursor until an address that is not reserved.
RECURSIVE GetScan(_)
GetScan(p) ==
    IF ~Contains(p.prefix, p.addr)
    THEN [pool |-> p, err |-> ErrEmpty, addr |-> ZeroAddr]
    ELSE LET addr == p.addr
             q    == [p EXCEPT !.addr = Next_(p.addr)]
         IN  IF addr \notin q.reserved
             THEN [pool |-> q, err |-> "nil", addr |-> addr]
             ELSE GetScan(q)

\* Mutant of IPPoolGet: the head of the queue is returned but not removed.
IPPoolGetKeepsHead(p) ==
    LET r == IF Len(p.unassigned) > 0
             THEN [pool |-> p, err |-> "nil", addr |-> Head(p.unassigned)]
             ELSE GetScan(p)
    IN  IF r.err # "nil" THEN r
        ELSE [r EXCEPT !.pool.assigned = @ \cup {r.addr}]

\* Mutant of IPPoolGet: the cursor is tried first, the queue only at the end
\* of the prefix.
IPPoolGetCursorFirst(p) ==
    LET s == GetScan(p)
        r == IF s.err = "nil" \/ Len(p.unassigned) = 0 THEN s
             ELSE [pool |-> [s.pool EXCEPT !.unassigned = Tail(@)],
                   err  |-> "nil",
                   addr |-> Head(p.unassigned)]
    IN  IF r.err # "nil" THEN r
        ELSE [r EXCEPT !.pool.assigned = @ \cup {r.addr}]

\* Mutant of IPPoolGet: the address returned is not marked assigned.
IPPoolGetNoAssign(p) ==
    IF Len(p.unassigned) > 0
    THEN [pool |-> [p EXCEPT !.unassigned = Tail(@)],
          err  |-> "nil",
          addr |-> Head(p.unassigned)]
    ELSE GetScan(p)

IPPoolGet(p) ==
    LET r == IF Len(p.unassigned) > 0
             THEN [pool |-> [p EXCEPT !.unassigned = Tail(@)],
                   err  |-> "nil",
                   addr |-> Head(p.unassigned)]
             ELSE GetScan(p)
    IN  IF r.err # "nil" THEN r
        ELSE [r EXCEPT !.pool.assigned = @ \cup {r.addr}]

\* Mutant of IPPoolPut: the address recycled stays assigned.
IPPoolPutKeepsAssigned(p, addr) ==
    IF addr \notin p.assigned
    THEN [pool |-> p, err |-> ErrNotAssigned, addr |-> addr]
    ELSE [pool |-> [p EXCEPT !.unassigned = Append(@, addr)],
          err  |-> "nil",
          addr |-> addr]

\* Mutant of IPPoolPut: the address is not checked to be assigned.
IPPoolPutUnchecked(p, addr) ==
    [pool |-> [p EXCEPT !.assigned = @ \ {addr},
                        !.unassigned = Append(@, addr)],
     err  |-> "nil",
     addr |-> addr]

IPPoolPut(p, addr) ==
    IF addr \notin p.assigned
    THEN [pool |-> p, err |-> ErrNotAssigned, addr |-> addr]
    ELSE [pool |-> [p EXCEPT !.assigned = @ \ {addr},
                             !.unassigned = Append(@, addr)],
          err  |-> "nil",
          addr |-> addr]

\* Mutant of NewIPPoolFromString: the broadcast address is not reserved.
NewIPPoolNoBroadcast(prefix) ==
    LET p0 == [assigned   |-> {},
               reserved   |-> {},
               unassigned |-> <<>>,
               addr       |-> NetworkAddr(prefix),
               prefix     |-> prefix,
               m          |-> 0]
        p1 == IPPoolReserve(p0, PrefixAddr(prefix)).pool
    IN  IPPoolReserve(p1, NetworkAddr(prefix)).pool

NewIPPoolFromString(prefix) ==
    LET p0 == [assigned   |-> {},
               reserved   |-> {},
               unassigned |-> <<>>,
               addr       |-> NetworkAddr(prefix),
               prefix     |-> prefix,
               m          |-> 0]
        p1 == IPPoolReserve(p0, PrefixAddr(prefix)).pool
        p2 == IPPoolReserve(p1, NetworkAddr(prefix)).pool
    IN  IF Is4(p2.addr)
        THEN IPPoolReserve(p2, BroadcastAddr(prefix).addr).pool
        ELSE p2

----------------------------------------------------------------------------
(* wireguard.PeerManager: each operator is the body of the method, run under *)
(* m.rwm.  ps is m.pools, mm is m.m (identity -> Peer.Addrs).                *)

\* Identities are strings: EmptyID is "", 1..NumPeers are non-empty ones.
EmptyID == 0

ErrEmptyID == "peer id is empty"
ErrExists == "peer already exists"
Panic == "panic: failed to put addr to pool"

\* The range loop of Put from pool i on: Get on each pool in order, appending
\* to addrs, until one fails.
RECURSIVE GetEach(_, _, _)
GetEach(ps, i, addrs) ==
    IF i > Len(ps) THEN [pools |-> ps, addrs |-> addrs, err |-> "nil"]
    ELSE LET r == IPPoolGet(ps[i])
         IN  IF r.err # "nil"
             THEN [pools |-> [ps EXCEPT ![i] = r.pool], addrs |-> addrs, err |-> r.err]
             ELSE GetEach([ps EXCEPT ![i] = r.pool], i + 1, Append(addrs, r.addr))

\* for i := 0; i < len(addrs); i++ { pools[i].Put(addrs[i]) or panic }, from
\* position i on.
RECURSIVE PutEach(_, _, _)
PutEach(ps, addrs, i) ==
    IF i > Len(addrs) THEN [pools |-> ps, err |-> "nil"]
    ELSE LET r == IPPoolPut(ps[i], addrs[i])
         IN  IF r.err # "nil" THEN [pools |-> ps, err |-> Panic]
             ELSE PutEach([ps EXCEPT ![i] = r.pool], addrs, i + 1)

\* The deferred function of Put: it reads the named result addrs as the
\* return statement has just set it.
PutDeferred(ps, addrs) ==
    IF Len(addrs) # Len(ps) THEN PutEach(ps, addrs, 1)
    ELSE [pools |-> ps, err |-> "nil"]

\* The named result addrs when the loop of Put ends: "return nil, err" sets it
\* to nil on a failed Get, and it is the collected list otherwise.
PutResultAddrs(g) == IF g.err # "nil" THEN <<>> ELSE g.addrs

\* Mutant of PeerManagerPut: a registered identity is not rejected.
PeerManagerPutNoExistsCheck(ps, mm, id) ==
    IF id = EmptyID
    THEN [pools |-> ps, m |-> mm, addrs |-> <<>>, err |-> ErrEmptyID]
    ELSE LET g     == GetEach(ps, 1, <<>>)
             addrs == PutResultAddrs(g)
             d     == PutDeferred(g.pools, addrs)
             mm2   == IF g.err = "nil"
                      THEN [k \in DOMAIN mm \cup {id} |->
                               IF k = id THEN addrs ELSE mm[k]]
                      ELSE mm
         IN  [pools |-> d.pools, m |-> mm2, addrs |-> addrs,
              err |-> IF d.err # "nil" THEN d.err ELSE g.err]

\* Mutant of PeerManagerPut: the entry is stored before the loop has got an
\* address from every pool, with the addresses collected so far.
PeerManagerPutStoresPartial(ps, mm, id) ==
    IF id = EmptyID
    THEN [pools |-> ps, m |-> mm, addrs |-> <<>>, err |-> ErrEmptyID]
    ELSE IF id \in DOMAIN mm
    THEN [pools |-> ps, m |-> mm, addrs |-> <<>>, err |-> ErrExists]
    ELSE LET g     == GetEach(ps, 1, <<>>)
             addrs == PutResultAddrs(g)
             d     == PutDeferred(g.pools, addrs)
         IN  [pools |-> d.pools,
              m     |-> [k \in DOMAIN mm \cup {id} |->
                            IF k = id THEN g.addrs ELSE mm[k]],
              addrs |-> addrs,
              err   |-> IF d.err # "nil" THEN d.err ELSE g.err]

PeerManagerPut(ps, mm, id) ==
    IF id = EmptyID
    THEN [pools |-> ps, m |-> mm, addrs |-> <<>>, err |-> ErrEmptyID]
    ELSE IF id \in DOMAIN mm
    THEN [pools |-> ps, m |-> mm, addrs |-> <<>>, err |-> ErrExists]
    ELSE LET g     == GetEach(ps, 1, <<>>)
             addrs == PutResultAddrs(g)
             d     == PutDeferred(g.pools, addrs)
             mm2   == IF g.err = "nil"
                      THEN [k \in DOMAIN mm \cup {id} |->
                               IF k = id THEN addrs ELSE mm[k]]
                      ELSE mm
         IN  [pools |-> d.pools, m |-> mm2, addrs |-> addrs,
              err |-> IF d.err # "nil" THEN d.err ELSE g.err]

\* Mutant of PeerManagerDelete: the entry is not removed from the map.
PeerManagerDeleteKeepsEntry(ps, mm, v) ==
    IF v \notin DOMAIN mm
    THEN [pools |-> ps, m |-> mm, err |-> "nil"]
    ELSE LET d == PutEach(ps, mm[v], 1)
         IN  [pools |-> d.pools, m |-> mm, err |-> d.err]

\* Mutant of PeerManagerDelete: the entry is removed, its addresses are not
\* returned to the pools.
PeerManagerDeleteNoPut(ps, mm, v) ==
    IF v \notin DOMAIN mm
    THEN [pools |-> ps, m |-> mm, err |-> "nil"]
    ELSE [pools |-> ps, m |-> [k \in DOMAIN mm \ {v} |-> mm[k]], err |-> "nil"]

PeerManagerDelete(ps, mm, v) ==
    IF v \notin DOMAIN mm
    THEN [pools |-> ps, m |-> mm, err |-> "nil"]
    ELSE LET d == PutEach(ps, mm[v], 1)
         IN  IF d.err # "nil"
             THEN [pools |-> d.pools, m |-> mm, err |-> d.err]
             ELSE [pools |-> d.pools,
                   m     |-> [k \in DOMAIN mm \ {v} |-> mm[k]],
                   err   |-> "nil"]

\* Mutant of PeerManagerGet: a non-nil Peer is returned for every identity.
PeerManagerGetAlwaysFound(mm, v) ==
    [found |-> TRUE, addrs |-> IF v \in DOMAIN mm THEN mm[v] ELSE <<>>]

\* A nil *Peer is found = FALSE.
PeerManagerGet(mm, v) ==
    IF v \in DOMAIN mm THEN [found |-> TRUE, addrs |-> mm[v]]
    ELSE [found |-> FALSE, addrs |-> <<>>]

PeerManagerLen(mm) == Cardinality(DOMAIN mm)

ErrCallback == "callback error"

\* What the callback of Iterate returns for a key: (false, nil), (true, nil)
\* or (_, err).
FnResults == {"continue", "stop", "err"}

\* The orders "for key, value := range m.m" may visit the keys in.
RangeOrders(mm) ==
    {o \in [1 .. Cardinality(DOMAIN mm) -> DOMAIN mm] :
        \A i, j \in DOMAIN o : o[i] = o[j] => i = j}

\* The range loop of Iterate from position i of order on; n counts the calls
\* of fn.
RECURSIVE IterateFrom(_, _, _)
IterateFrom(order, fn, i) ==
    IF i > Len(order) THEN [err |-> "nil", n |-> i - 1]
    ELSE IF fn[order[i]] = "err" THEN [err |-> ErrCallback, n |-> i]
    ELSE IF fn[order[i]] = "stop" THEN [err |-> "nil", n |-> i]
    ELSE IterateFrom(order, fn, i + 1)

PeerManagerIterate(mm, order, fn) == IterateFrom(order, fn, 1)

----------------------------------------------------------------------------
(* Calls made directly on a pool by an outside caller.  Reserve and Put      *)
(* return an error, Get an address and an error (the zero Addr with a       *)
(* non-nil error).                                                          *)

NoPeers == [id \in {} |-> <<>>]

NoRet ==
    [op |-> "new", id |-> EmptyID, err |-> "nil", addr |-> ZeroAddr,
     addrs |-> <<>>, found |-> FALSE, n |-> 0]

\* Addresses reserved on pool p by explicit Reserve calls since construction.
ExplicitReserved(p) == p.reserved \ NewIPPoolFromString(p.prefix).reserved

\* Addresses of the blocks pools are built from: the last 2^AddrBits
\* addresses of each family (all of IPv4), where Next of the last one is the
\* zero Addr.
PoolAddrsOf(fam) ==
    IF fam = 0 THEN {}
    ELSE {[fam |-> fam, val |-> v] : v \in MaxVal(fam) - MaxVal(4) .. MaxVal(fam)}

PoolAddrs == PoolAddrsOf(4) \cup PoolAddrsOf(6)

\* Prefixes pools are built from: the blocks of at most 2^AddrBits addresses
\* within PoolAddrs.
PoolPrefixes ==
    {p \in Prefixes :
        /\ Width(p.fam) - p.bits <= AddrBits
        /\ PrefixAddr(p) \in PoolAddrs}

\* Arguments an outside caller passes to pool p: addresses of the pool's
\* family, the zero Addr and addresses of the other family.
ArgAddrs(p) ==
    PoolAddrsOf(p.prefix.fam)
        \cup {ZeroAddr}
        \cup {[fam |-> f, val |-> 1] : f \in Families \ {p.prefix.fam}}

CallReserve(i, addr) ==
    LET r == IPPoolReserve(pools[i], addr)
    IN  /\ r.err = "nil" => Cardinality(ExplicitReserved(pools[i])) < MaxReserve
        /\ pools' = [pools EXCEPT ![i] = r.pool]
        /\ ret' = [NoRet EXCEPT !.op = "Reserve", !.err = r.err]
        /\ UNCHANGED <<m, rwm, th, np, sched>>

CallGet(i) ==
    LET r == IPPoolGet(pools[i])
    IN  /\ pools' = [pools EXCEPT ![i] = r.pool]
        /\ ret' = [NoRet EXCEPT !.op = "Get", !.err = r.err, !.addr = r.addr]
        /\ UNCHANGED <<m, rwm, th, np, sched>>

CallPut(i, addr) ==
    LET r == IPPoolPut(pools[i], addr)
    IN  /\ r.err = "nil" => Len(pools[i].unassigned) < MaxQueue
        /\ pools' = [pools EXCEPT ![i] = r.pool]
        /\ ret' = [NoRet EXCEPT !.op = "Put", !.err = r.err]
        /\ UNCHANGED <<m, rwm, th, np, sched>>

----------------------------------------------------------------------------
(* Calls on the registry. *)

PeerIDs == 1 .. NumPeers

Acquire(id) ==
    LET r == PeerManagerPut(pools, m, id)
    IN  /\ pools' = r.pools
        /\ m' = r.m
        /\ ret' = [NoRet EXCEPT !.op = "Acquire", !.id = id, !.err = r.err,
                                !.addrs = r.addrs]
        /\ UNCHANGED <<rwm, th, np, sched>>

Release(id) ==
    LET r == PeerManagerDelete(pools, m, id)
    IN  /\ pools' = r.pools
        /\ m' = r.m
        /\ ret' = [NoRet EXCEPT !.op = "Release", !.id = id, !.err = r.err]
        /\ UNCHANGED <<rwm, th, np, sched>>

Lookup(id) ==
    LET r == PeerManagerGet(m, id)
    IN  /\ ret' = [NoRet EXCEPT !.op = "Lookup", !.id = id, !.found = r.found,
                                !.addrs = r.addrs]
        /\ UNCHANGED <<pools, m, rwm, th, np, sched>>

Count ==
    /\ ret' = [NoRet EXCEPT !.op = "Count", !.n = PeerManagerLen(m)]
    /\ UNCHANGED <<pools, m, rwm, th, np, sched>>

\* Callbacks that only look at the Peer: at most one key makes fn stop or fail.
Callbacks ==
    {fn \in [PeerIDs -> FnResults] :
        \A i, j \in PeerIDs : (fn[i] # "continue" /\ fn[j] # "continue") => i = j}

ForEach(order, fn) ==
    LET r == PeerManagerIterate(m, order, fn)
    IN  /\ ret' = [NoRet EXCEPT !.op = "ForEach", !.err = r.err, !.n = r.n]
        /\ UNCHANGED <<pools, m, rwm, th, np, sched>>

----------------------------------------------------------------------------
(* Calls of the NetPrefix functions by a caller that holds the NetPrefix np. *)

CallNewNetPrefix(s) ==
    LET r == NewNetPrefixFromString(s)
    IN  /\ np' = IF r.err = "nil" THEN r.prefix ELSE np
        /\ ret' = [NoRet EXCEPT !.op = "NewNetPrefixFromString", !.err = r.err]
        /\ UNCHANGED <<pools, m, rwm, th, sched>>

CallLen ==
    /\ ret' = [NoRet EXCEPT !.op = "Len", !.n = NetPrefixLen(np)]
    /\ UNCHANGED <<pools, m, rwm, th, np, sched>>

CallAddrs ==
    LET r == NetPrefixAddrs(np)
    IN  /\ ret' = [NoRet EXCEPT !.op = "Addrs", !.err = r.err, !.addrs = r.addrs]
        /\ UNCHANGED <<pools, m, rwm, th, np, sched>>

CallValidate ==
    /\ ret' = [NoRet EXCEPT !.op = "Validate", !.err = Validate(np)]
    /\ UNCHANGED <<pools, m, rwm, th, np, sched>>

CallNetworkAddr ==
    /\ ret' = [NoRet EXCEPT !.op = "NetworkAddr", !.addr = NetworkAddr(np)]
    /\ UNCHANGED <<pools, m, rwm, th, np, sched>>

CallBroadcastAddr ==
    LET r == BroadcastAddr(np)
    IN  /\ ret' = [NoRet EXCEPT !.op = "BroadcastAddr", !.err = r.err, !.addr = r.addr]
        /\ UNCHANGED <<pools, m, rwm, th, np, sched>>

InitPrefix ==
    /\ np = ZeroPrefix
    /\ sched = NewScheduler
    /\ pools = <<>>
    /\ m = NoPeers
    /\ ret = NoRet
    /\ rwm = 0
    /\ th = <<>>

NextPrefix ==
    \/ \E s \in PrefixStrings : CallNewNetPrefix(s)
    \/ CallLen
    \/ CallAddrs
    \/ CallValidate
    \/ CallNetworkAddr
    \/ CallBroadcastAddr

SpecPrefix == InitPrefix /\ [][NextPrefix]_vars

----------------------------------------------------------------------------
(* One pool on its own, built from any prefix or from the empty string. *)

InitPool ==
    /\ \E prefix \in PoolPrefixes \cup {ZeroPrefix} :
            pools = <<NewIPPoolFromString(prefix)>>
    /\ m = NoPeers
    /\ ret = NoRet
    /\ rwm = 0
    /\ th = <<>>
    /\ np = ZeroPrefix
    /\ sched = NewScheduler

NextPool ==
    \/ \E addr \in ArgAddrs(pools[1]) : CallReserve(1, addr)
    \/ CallGet(1)
    \/ \E addr \in ArgAddrs(pools[1]) : CallPut(1, addr)

SpecPool == InitPool /\ [][NextPool]_vars

----------------------------------------------------------------------------
(* The registry over the pools ServerConfig.IPPools builds: an IPv4 pool, an *)
(* IPv6 pool, or both in that order.  As in wireguard.Server, the pools are  *)
(* reached through the registry only.                                        *)

\* ServerConfig.IPv4Addr / IPv6Addr: "" or a prefix of the family.
ConfigPrefixes(fam) == {p \in PoolPrefixes : p.fam = fam} \cup {ZeroPrefix}

\* Mutant of IPPools: a pool is built for an empty field too.
IPPoolsKeepsEmpty(v4, v6) == <<NewIPPoolFromString(v4), NewIPPoolFromString(v6)>>

IPPools(v4, v6) ==
    (IF v4 = ZeroPrefix THEN <<>> ELSE <<NewIPPoolFromString(v4)>>)
        \o (IF v6 = ZeroPrefix THEN <<>> ELSE <<NewIPPoolFromString(v6)>>)

Init ==
    /\ \E v4 \in ConfigPrefixes(4), v6 \in ConfigPrefixes(6) :
            /\ ~(v4 = ZeroPrefix /\ v6 = ZeroPrefix)
            /\ pools = IPPools(v4, v6)
    /\ m = NoPeers
    /\ ret = NoRet
    /\ rwm = 0
    /\ th = <<>>
    /\ np = ZeroPrefix
    /\ sched = NewScheduler

Next ==
    \/ \E id \in PeerIDs \cup {EmptyID} : Acquire(id)
    \/ \E id \in PeerIDs \cup {EmptyID} : Release(id)
    \/ \E id \in PeerIDs \cup {EmptyID} : Lookup(id)
    \/ Count
    \/ \E order \in RangeOrders(m), fn \in Callbacks : ForEach(order, fn)

Spec == Init /\ [][Next]_vars

----------------------------------------------------------------------------
(* Goroutines calling PeerManager.Put at the same time on a registry over    *)
(* one pool.  Goroutine t passes identity th[t].id.  A step is what one     *)
(* goroutine                                                                 *)
(* does between two lock operations or pool calls; IPPool.Get runs under the *)
(* pool's own mutex and is one step.                                         *)

\* Addresses a fresh pool over prefix can lease.
Leasable(prefix) ==
    LET reserved == NewIPPoolFromString(prefix).reserved
    IN  {a \in PoolAddrsOf(prefix.fam) : Contains(prefix, a) /\ a \notin reserved}

\* What a goroutine holds at the lock of its call, kept to compare the call
\* with its body run in one step.
NoSnap == [pools |-> <<>>, m |-> NoPeers]

\* A goroutine about to call PeerManager.Put: the method, its arguments (id
\* for the registry, arg for a pool), its position, its locals and results.
Idle ==
    [op |-> "Put", id |-> EmptyID, arg |-> ZeroAddr, pc |-> "call", i |-> 1,
     addrs |-> <<>>, err |-> "nil", addr |-> ZeroAddr, found |-> FALSE, n |-> 0,
     snap |-> NoSnap]

\* m.rwm.Lock()
PutLock(t) ==
    /\ th[t].pc = "call"
    /\ th[t].op = "Put"
    /\ rwm = 0
    /\ rwm' = t
    /\ th' = [th EXCEPT ![t].pc = "check", ![t].snap = [pools |-> pools, m |-> m]]
    /\ UNCHANGED <<pools, m, ret, np, sched>>

\* The checks of the identity.
PutCheck(t) ==
    /\ th[t].pc = "check"
    /\ th' = [th EXCEPT ![t] =
                 IF @.id = EmptyID THEN [@ EXCEPT !.pc = "unlock", !.err = ErrEmptyID]
                 ELSE IF @.id \in DOMAIN m THEN [@ EXCEPT !.pc = "unlock", !.err = ErrExists]
                 ELSE [@ EXCEPT !.pc = "loop"]]
    /\ UNCHANGED <<pools, m, ret, rwm, np, sched>>

\* One iteration of the range loop: pool.Get(), then return or append.
PutLoop(t) ==
    /\ th[t].pc = "loop"
    /\ th[t].i <= Len(pools)
    /\ LET r == IPPoolGet(pools[th[t].i])
       IN  /\ pools' = [pools EXCEPT ![th[t].i] = r.pool]
           /\ th' = [th EXCEPT ![t] =
                        IF r.err # "nil"
                        THEN [@ EXCEPT !.pc = "deferred", !.err = r.err,
                                       !.addrs = PutResultAddrs([err |-> r.err, addrs |-> @])]
                        ELSE [@ EXCEPT !.i = @ + 1, !.addrs = Append(@, r.addr)]]
    /\ UNCHANGED <<m, ret, rwm, np, sched>>

\* m.m[id] = &Peer{...}; return addrs, nil
PutStore(t) ==
    /\ th[t].pc = "loop"
    /\ th[t].i > Len(pools)
    /\ m' = [k \in DOMAIN m \cup {th[t].id} |->
                 IF k = th[t].id THEN th[t].addrs ELSE m[k]]
    /\ th' = [th EXCEPT ![t].pc = "deferred"]
    /\ UNCHANGED <<pools, ret, rwm, np, sched>>

\* The deferred function that returns the addresses of a failed call.
PutRollback(t) ==
    /\ th[t].pc = "deferred"
    /\ LET d == PutDeferred(pools, th[t].addrs)
       IN  /\ pools' = d.pools
           /\ th' = [th EXCEPT ![t].pc = "unlock",
                                ![t].err = IF d.err # "nil" THEN d.err ELSE @]
    /\ UNCHANGED <<m, ret, rwm, np, sched>>

\* The deferred m.rwm.Unlock(); the call returns th[t].addrs and th[t].err.
PutUnlock(t) ==
    /\ th[t].pc = "unlock"
    /\ th[t].op = "Put"
    /\ rwm = t
    /\ rwm' = 0
    /\ th' = [th EXCEPT ![t].pc = "done"]
    /\ UNCHANGED <<pools, m, ret, np, sched>>

\* N goroutines with identities 1..N on a pool that can lease exactly N
\* addresses; goroutine N+1, with a fresh identity, calls once they are done.
InitConc ==
    /\ \E prefix \in PoolPrefixes :
           /\ Cardinality(Leasable(prefix)) \in 1 .. MaxThreads
           /\ pools = <<NewIPPoolFromString(prefix)>>
           /\ th = [t \in 1 .. Cardinality(Leasable(prefix)) + 1 |->
                       [Idle EXCEPT !.id = t]]
    /\ m = NoPeers
    /\ ret = NoRet
    /\ rwm = 0
    /\ np = ZeroPrefix
    /\ sched = NewScheduler

Fresh == Len(th)

NextConc ==
    \/ \E t \in DOMAIN th :
           /\ t = Fresh => \A u \in DOMAIN th \ {t} : th[u].pc = "done"
           /\ PutLock(t)
    \/ \E t \in DOMAIN th : PutCheck(t)
    \/ \E t \in DOMAIN th : PutLoop(t)
    \/ \E t \in DOMAIN th : PutStore(t)
    \/ \E t \in DOMAIN th : PutRollback(t)
    \/ \E t \in DOMAIN th : PutUnlock(t)

SpecConc == InitConc /\ [][NextConc]_vars

----------------------------------------------------------------------------
(* Goroutines calling the methods of one IPPool, or the methods of one       *)
(* PeerManager, at the same time.  Each goroutine makes one call.  A step is *)
(* a lock operation or one statement of the body that reads or writes the    *)
(* instance; IPPool.Get and IPPool.Put called by the registry run under the  *)
(* pool's own mutex, which only the holder of rwm contends for, and are one  *)
(* step.                                                                     *)

PoolOps == {"IPPool.Get", "IPPool.Put", "IPPool.Reserve"}

\* The calls a goroutine may make on pool p.
PoolCalls(p) ==
    {[Idle EXCEPT !.op = "IPPool.Get"]}
        \cup {[Idle EXCEPT !.op = op, !.arg = a] :
                 op \in {"IPPool.Put", "IPPool.Reserve"}, a \in ArgAddrs(p)}

\* The calls a goroutine may make on the registry.
RegistryCalls ==
    {[Idle EXCEPT !.op = op, !.id = id] :
        op \in {"Put", "Delete", "Get"}, id \in PeerIDs \cup {EmptyID}}
        \cup {[Idle EXCEPT !.op = "Len"]}

\* A goroutine makes its call.  A call that has not reached its lock has no
\* effect and goroutines are interchangeable: they start in the order of
\* their index, one waiting for its lock at a time.
Go(t, c) ==
    /\ th[t].pc = "idle"
    /\ \A u \in DOMAIN th : th[u].pc # "call"
    /\ \A u \in 1 .. t - 1 : th[u].pc # "idle"
    /\ c \in (IF th[t].op = "IPPool" THEN PoolCalls(pools[1]) ELSE RegistryCalls)
    /\ th' = [th EXCEPT ![t] = c]
    /\ UNCHANGED <<pools, m, ret, rwm, np, sched>>

\* A goroutine whose call has returned: its arguments, locals and results are
\* gone with the frame.
Returned == [Idle EXCEPT !.pc = "done"]

\* p.m.Lock()
IPPoolLock(t) ==
    /\ th[t].pc = "call"
    /\ th[t].op \in PoolOps
    /\ pools[1].m = 0
    /\ pools' = [pools EXCEPT ![1].m = t]
    /\ th' = [th EXCEPT ![t].pc = "body", ![t].snap = [pools |-> pools, m |-> m]]
    /\ UNCHANGED <<m, ret, rwm, np, sched>>

\* Get: the head of the queue is taken, or the cursor loop runs.
IPPoolGetPick(t) ==
    /\ th[t].pc = "body"
    /\ th[t].op = "IPPool.Get"
    /\ LET p == pools[1]
           r == IF Len(p.unassigned) > 0
                THEN [pool |-> [p EXCEPT !.unassigned = Tail(@)],
                      err  |-> "nil",
                      addr |-> Head(p.unassigned)]
                ELSE GetScan(p)
       IN  /\ pools' = [pools EXCEPT ![1] = r.pool]
           /\ th' = [th EXCEPT ![t].addr = r.addr, ![t].err = r.err,
                                ![t].pc = IF r.err = "nil" THEN "assign" ELSE "unlock"]
    /\ UNCHANGED <<m, ret, rwm, np, sched>>

\* Get: p.assigned[addr] = true
IPPoolGetAssign(t) ==
    /\ th[t].pc = "assign"
    /\ pools' = [pools EXCEPT ![1].assigned = @ \cup {th[t].addr}]
    /\ th' = [th EXCEPT ![t].pc = "unlock"]
    /\ UNCHANGED <<m, ret, rwm, np, sched>>

\* Put: if !p.assigned[addr] { return error }
IPPoolPutTest(t) ==
    /\ th[t].pc = "body"
    /\ th[t].op = "IPPool.Put"
    /\ th' = [th EXCEPT ![t] =
                 IF @.arg \notin pools[1].assigned
                 THEN [@ EXCEPT !.pc = "unlock", !.err = ErrNotAssigned]
                 ELSE [@ EXCEPT !.pc = "delete"]]
    /\ UNCHANGED <<pools, m, ret, rwm, np, sched>>

\* Put: delete(p.assigned, addr)
IPPoolPutDelete(t) ==
    /\ th[t].pc = "delete"
    /\ pools' = [pools EXCEPT ![1].assigned = @ \ {th[t].arg}]
    /\ th' = [th EXCEPT ![t].pc = "append"]
    /\ UNCHANGED <<m, ret, rwm, np, sched>>

\* Put: p.unassigned = append(p.unassigned, addr)
IPPoolPutAppend(t) ==
    /\ th[t].pc = "append"
    /\ pools' = [pools EXCEPT ![1].unassigned = Append(@, th[t].arg)]
    /\ th' = [th EXCEPT ![t].pc = "unlock"]
    /\ UNCHANGED <<m, ret, rwm, np, sched>>

\* Reserve: the two checks.
IPPoolReserveTest(t) ==
    /\ th[t].pc = "body"
    /\ th[t].op = "IPPool.Reserve"
    /\ th' = [th EXCEPT ![t] =
                 IF ~Contains(pools[1].prefix, @.arg)
                 THEN [@ EXCEPT !.pc = "unlock", !.err = ErrOutside]
                 ELSE IF @.arg \in pools[1].assigned \/ @.arg \in pools[1].reserved
                 THEN [@ EXCEPT !.pc = "unlock", !.err = ErrInUse]
                 ELSE [@ EXCEPT !.pc = "mark"]]
    /\ UNCHANGED <<pools, m, ret, rwm, np, sched>>

\* Reserve: p.reserved[addr] = true
IPPoolReserveMark(t) ==
    /\ th[t].pc = "mark"
    /\ pools' = [pools EXCEPT ![1].reserved = @ \cup {th[t].arg}]
    /\ th' = [th EXCEPT ![t].pc = "unlock"]
    /\ UNCHANGED <<m, ret, rwm, np, sched>>

\* The deferred p.m.Unlock(); the call has returned th[t].addr and th[t].err.
IPPoolUnlock(t) ==
    /\ th[t].pc = "unlock"
    /\ th[t].op \in PoolOps
    /\ pools[1].m = t
    /\ pools' = [pools EXCEPT ![1].m = 0]
    /\ th' = [th EXCEPT ![t] = Returned]
    /\ UNCHANGED <<m, ret, rwm, np, sched>>

\* Mutant of DeleteLock: the lock is taken without waiting for it to be free.
DeleteLockNoWait(t) ==
    /\ th[t].pc = "call"
    /\ th[t].op = "Delete"
    /\ rwm' = t
    /\ th' = [th EXCEPT ![t].pc = "find", ![t].snap = [pools |-> pools, m |-> m]]
    /\ UNCHANGED <<pools, m, ret, np, sched>>

\* Delete: m.rwm.Lock()
DeleteLock(t) ==
    /\ th[t].pc = "call"
    /\ th[t].op = "Delete"
    /\ rwm = 0
    /\ rwm' = t
    /\ th' = [th EXCEPT ![t].pc = "find", ![t].snap = [pools |-> pools, m |-> m]]
    /\ UNCHANGED <<pools, m, ret, np, sched>>

\* Delete: item, ok := m.m[v]; if !ok { return }
DeleteFind(t) ==
    /\ th[t].pc = "find"
    /\ th' = [th EXCEPT ![t] =
                 IF @.id \notin DOMAIN m THEN [@ EXCEPT !.pc = "unlock"]
                 ELSE [@ EXCEPT !.pc = "put", !.addrs = m[th[t].id]]]
    /\ UNCHANGED <<pools, m, ret, rwm, np, sched>>

\* Mutant of DeleteLoop: the error of Put is dropped and the loop goes on.
DeleteLoopSwallows(t) ==
    /\ th[t].pc = "put"
    /\ th[t].i <= Len(th[t].addrs)
    /\ LET r == IPPoolPut(pools[th[t].i], th[t].addrs[th[t].i])
       IN  /\ pools' = [pools EXCEPT ![th[t].i] = r.pool]
           /\ th' = [th EXCEPT ![t].i = @ + 1]
    /\ UNCHANGED <<m, ret, rwm, np, sched>>

\* Delete: one iteration of the loop: m.pools[i].Put(item.Addrs[i]) or panic.
DeleteLoop(t) ==
    /\ th[t].pc = "put"
    /\ th[t].i <= Len(th[t].addrs)
    /\ LET r == IPPoolPut(pools[th[t].i], th[t].addrs[th[t].i])
       IN  /\ pools' = [pools EXCEPT ![th[t].i] = r.pool]
           /\ th' = [th EXCEPT ![t] =
                        IF r.err # "nil" THEN [@ EXCEPT !.pc = "unlock", !.err = Panic]
                        ELSE [@ EXCEPT !.i = @ + 1]]
    /\ UNCHANGED <<m, ret, rwm, np, sched>>

\* Delete: delete(m.m, v)
DeleteRemove(t) ==
    /\ th[t].pc = "put"
    /\ th[t].i > Len(th[t].addrs)
    /\ m' = [k \in DOMAIN m \ {th[t].id} |-> m[k]]
    /\ th' = [th EXCEPT ![t].pc = "unlock"]
    /\ UNCHANGED <<pools, ret, rwm, np, sched>>

\* Delete: the deferred m.rwm.Unlock()
DeleteUnlock(t) ==
    /\ th[t].pc = "unlock"
    /\ th[t].op = "Delete"
    /\ rwm = t
    /\ rwm' = 0
    /\ th' = [th EXCEPT ![t] = Returned]
    /\ UNCHANGED <<pools, m, ret, np, sched>>

\* Get: m.rwm.RLock(), which waits while a goroutine holds rwm for writing.
GetRLock(t) ==
    /\ th[t].pc = "call"
    /\ th[t].op = "Get"
    /\ rwm <= 0
    /\ rwm' = rwm - 1
    /\ th' = [th EXCEPT ![t].pc = "read", ![t].snap = [pools |-> pools, m |-> m]]
    /\ UNCHANGED <<pools, m, ret, np, sched>>

\* Get: return m.m[v]
GetRead(t) ==
    /\ th[t].pc = "read"
    /\ th[t].op = "Get"
    /\ th' = [th EXCEPT ![t].found = PeerManagerGet(m, th[t].id).found,
                         ![t].addrs = PeerManagerGet(m, th[t].id).addrs,
                         ![t].pc = "unlock"]
    /\ UNCHANGED <<pools, m, ret, rwm, np, sched>>

\* Get: the deferred m.rwm.RUnlock()
GetRUnlock(t) ==
    /\ th[t].pc = "unlock"
    /\ th[t].op = "Get"
    /\ rwm' = rwm + 1
    /\ th' = [th EXCEPT ![t] = Returned]
    /\ UNCHANGED <<pools, m, ret, np, sched>>

\* Len: m.rwm.RLock()
LenRLock(t) ==
    /\ th[t].pc = "call"
    /\ th[t].op = "Len"
    /\ rwm <= 0
    /\ rwm' = rwm - 1
    /\ th' = [th EXCEPT ![t].pc = "read", ![t].snap = [pools |-> pools, m |-> m]]
    /\ UNCHANGED <<pools, m, ret, np, sched>>

\* Len: return len(m.m)
LenRead(t) ==
    /\ th[t].pc = "read"
    /\ th[t].op = "Len"
    /\ th' = [th EXCEPT ![t].n = PeerManagerLen(m), ![t].pc = "unlock"]
    /\ UNCHANGED <<pools, m, ret, rwm, np, sched>>

\* Len: the deferred m.rwm.RUnlock()
LenRUnlock(t) ==
    /\ th[t].pc = "unlock"
    /\ th[t].op = "Len"
    /\ rwm' = rwm + 1
    /\ th' = [th EXCEPT ![t] = Returned]
    /\ UNCHANGED <<pools, m, ret, np, sched>>

\* The largest block a pool is built from, for each family.
SerPrefix(fam) ==
    [fam |-> fam, addr |-> MaxVal(fam) - MaxVal(4), bits |-> Width(fam) - AddrBits]

\* The pool when the goroutines start: new, or after Get; Get; Put in turn.
SerPools(prefix) ==
    LET p0 == NewIPPoolFromString(prefix)
        g1 == IPPoolGet(p0)
        g2 == IPPoolGet(g1.pool)
    IN  {p0, g1.pool, g2.pool, IPPoolPut(g2.pool, g1.addr).pool}

\* The registry when the goroutines start: new, or after Put of the first
\* identities in turn.
SerRegistries ==
    LET r0 == [pools |-> IPPools(SerPrefix(4), SerPrefix(6)), m |-> NoPeers]
        r1 == PeerManagerPut(r0.pools, r0.m, 1)
        r2 == PeerManagerPut(r1.pools, r1.m, NumPeers)
    IN  {r0, [pools |-> r1.pools, m |-> r1.m], [pools |-> r2.pools, m |-> r2.m]}

InitSer ==
    /\ \/ /\ \E fam \in Families : \E p \in SerPools(SerPrefix(fam)) : pools = <<p>>
          /\ m = NoPeers
          /\ th = [t \in 1 .. MaxThreads |-> [Idle EXCEPT !.pc = "idle", !.op = "IPPool"]]
       \/ /\ \E r \in SerRegistries : pools = r.pools /\ m = r.m
          /\ th = [t \in 1 .. MaxThreads |->
                      [Idle EXCEPT !.pc = "idle", !.op = "PeerManager"]]
    /\ ret = NoRet
    /\ rwm = 0
    /\ np = ZeroPrefix
    /\ sched = NewScheduler

NextSer ==
    \/ \E t \in DOMAIN th : \E c \in PoolCalls(pools[1]) \cup RegistryCalls : Go(t, c)
    \/ \E t \in DOMAIN th : IPPoolLock(t)
    \/ \E t \in DOMAIN th : IPPoolGetPick(t)
    \/ \E t \in DOMAIN th : IPPoolGetAssign(t)
    \/ \E t \in DOMAIN th : IPPoolPutTest(t)
    \/ \E t \in DOMAIN th : IPPoolPutDelete(t)
    \/ \E t \in DOMAIN th : IPPoolPutAppend(t)
    \/ \E t \in DOMAIN th : IPPoolReserveTest(t)
    \/ \E t \in DOMAIN th : IPPoolReserveMark(t)
    \/ \E t \in DOMAIN th : IPPoolUnlock(t)
    \/ \E t \in DOMAIN th : PutLock(t)
    \/ \E t \in DOMAIN th : PutCheck(t)
    \/ \E t \in DOMAIN th : PutLoop(t)
    \/ \E t \in DOMAIN th : PutStore(t)
    \/ \E t \in DOMAIN th : PutRollback(t)
    \/ \E t \in DOMAIN th : PutUnlock(t)
    \/ \E t \in DOMAIN th : DeleteLock(t)
    \/ \E t \in DOMAIN th : DeleteFind(t)
    \/ \E t \in DOMAIN th : DeleteLoop(t)
    \/ \E t \in DOMAIN th : DeleteRemove(t)
    \/ \E t \in DOMAIN th : DeleteUnlock(t)
    \/ \E t \in DOMAIN th : GetRLock(t)
    \/ \E t \in DOMAIN th : GetRead(t)
    \/ \E t \in DOMAIN th : GetRUnlock(t)
    \/ \E t \in DOMAIN th : LenRLock(t)
    \/ \E t \in DOMAIN th : LenRead(t)
    \/ \E t \in DOMAIN th : LenRUnlock(t)

SpecSer == InitSer /\ [][NextSer]_vars

----------------------------------------------------------------------------
(* A registry whose pools outside callers hold too.  A pool method runs      *)
(* under the pool's mutex and is one step; rwm does not keep outside callers *)
(* off the pools.                                                            *)

\* The smallest block that leaves an IPv4 pool addresses to lease (a /30),
\* and the IPv6 block of the same size.
SmallPrefix(fam) == [fam |-> fam, addr |-> MaxVal(fam) - 3, bits |-> Width(fam) - 2]

\* The registry when the outside callers start: new, or after Put of the
\* first identities in turn.
SmallRegistries ==
    LET r0 == [pools |-> IPPools(SmallPrefix(4), SmallPrefix(6)), m |-> NoPeers]
        r1 == PeerManagerPut(r0.pools, r0.m, 1)
        r2 == PeerManagerPut(r1.pools, r1.m, 2)
    IN  {r0, [pools |-> r1.pools, m |-> r1.m], [pools |-> r2.pools, m |-> r2.m]}

\* Goroutines call Delete, step by step, while outside callers call Put on
\* the pools: their calls fall between the steps of Delete too.
DeleteCalls == {c \in RegistryCalls : c.op = "Delete"}

InitOutside ==
    /\ \E r \in SmallRegistries : pools = r.pools /\ m = r.m
    /\ th = [t \in 1 .. MaxThreads |-> [Idle EXCEPT !.pc = "idle", !.op = "PeerManager"]]
    /\ ret = NoRet
    /\ rwm = 0
    /\ np = ZeroPrefix
    /\ sched = NewScheduler

NextOutside ==
    \/ \E t \in DOMAIN th : \E c \in DeleteCalls : Go(t, c)
    \/ \E t \in DOMAIN th : DeleteLock(t)
    \/ \E t \in DOMAIN th : DeleteFind(t)
    \/ \E t \in DOMAIN th : DeleteLoop(t)
    \/ \E t \in DOMAIN th : DeleteRemove(t)
    \/ \E t \in DOMAIN th : DeleteUnlock(t)
    \/ \E i \in DOMAIN pools : \E addr \in ArgAddrs(pools[i]) : CallPut(i, addr)

SpecOutside == InitOutside /\ [][NextOutside]_vars

\* Acquire and Release in any order while outside callers call Get and
\* Reserve, never Put, on the pools.
InitNoPut ==
    /\ pools = IPPools(SmallPrefix(4), SmallPrefix(6))
    /\ m = NoPeers
    /\ th = <<>>
    /\ ret = NoRet
    /\ rwm = 0
    /\ np = ZeroPrefix
    /\ sched = NewScheduler

NextNoPut ==
    \/ \E id \in PeerIDs \cup {EmptyID} : Acquire(id)
    \/ \E id \in PeerIDs \cup {EmptyID} : Release(id)
    \/ \E i \in DOMAIN pools : CallGet(i)
    \/ \E i \in DOMAIN pools : \E addr \in ArgAddrs(pools[i]) : CallReserve(i, addr)

SpecNoPut == InitNoPut /\ [][NextNoPut]_vars

----------------------------------------------------------------------------
(* wireguard.Server over a PeerManager.  A request either fails the type     *)
(* assertion or its Validate, or yields an identity; the "wg set" command    *)
(* succeeds or fails.                                                        *)

ErrInvalidRequest == "invalid request"
ErrNoAddrs == "no addrs available"
ErrCommand == "failed to run command"

\* fmt.Errorf("failed to put peer: %w", err)
FailedToPutPeer(e) ==
    CASE e = ErrEmptyID -> "failed to put peer: peer id is empty"
      [] e = ErrExists  -> "failed to put peer: peer already exists"
      [] e = Panic      -> Panic
      [] OTHER          -> "failed to put peer: failed to get addr from pool"

\* Mutant of AddPeer: the registration is undone when the command fails or no
\* address was leased.
AddPeerCompensates(valid, id, cmdOk) ==
    IF ~valid
    THEN /\ ret' = [NoRet EXCEPT !.op = "AddPeer", !.id = id, !.err = ErrInvalidRequest]
         /\ UNCHANGED <<pools, m, rwm, th, np, sched>>
    ELSE LET r == PeerManagerPut(pools, m, id)
             d == PeerManagerDelete(r.pools, r.m, id)
             failed == r.err = "nil" /\ (Len(r.addrs) = 0 \/ ~cmdOk)
         IN  /\ pools' = IF failed THEN d.pools ELSE r.pools
             /\ m' = IF failed THEN d.m ELSE r.m
             /\ ret' = [NoRet EXCEPT
                           !.op = "AddPeer", !.id = id,
                           !.err = IF r.err # "nil" THEN FailedToPutPeer(r.err)
                                   ELSE IF Len(r.addrs) = 0 THEN ErrNoAddrs
                                   ELSE IF ~cmdOk THEN ErrCommand
                                   ELSE "nil",
                           !.addrs = IF ~failed THEN r.addrs ELSE <<>>]
             /\ UNCHANGED <<rwm, th, np, sched>>

AddPeer(valid, id, cmdOk) ==
    IF ~valid
    THEN /\ ret' = [NoRet EXCEPT !.op = "AddPeer", !.id = id, !.err = ErrInvalidRequest]
         /\ UNCHANGED <<pools, m, rwm, th, np, sched>>
    ELSE LET r == PeerManagerPut(pools, m, id)
             err == IF r.err # "nil" THEN FailedToPutPeer(r.err)
                    ELSE IF Len(r.addrs) = 0 THEN ErrNoAddrs
                    ELSE IF ~cmdOk THEN ErrCommand
                    ELSE "nil"
         IN  /\ pools' = r.pools
             /\ m' = r.m
             /\ ret' = [NoRet EXCEPT !.op = "AddPeer", !.id = id, !.err = err,
                                     !.addrs = IF err = "nil" THEN r.addrs ELSE <<>>]
             /\ UNCHANGED <<rwm, th, np, sched>>

HasPeer(valid, id) ==
    /\ ret' = IF ~valid
              THEN [NoRet EXCEPT !.op = "HasPeer", !.id = id, !.err = ErrInvalidRequest]
              ELSE [NoRet EXCEPT !.op = "HasPeer", !.id = id,
                                 !.found = PeerManagerGet(m, id).found]
    /\ UNCHANGED <<pools, m, rwm, th, np, sched>>

RemovePeer(valid, id, cmdOk) ==
    IF ~valid \/ ~cmdOk
    THEN /\ ret' = [NoRet EXCEPT !.op = "RemovePeer", !.id = id,
                                 !.err = IF ~valid THEN ErrInvalidRequest ELSE ErrCommand]
         /\ UNCHANGED <<pools, m, rwm, th, np, sched>>
    ELSE LET r == PeerManagerDelete(pools, m, id)
         IN  /\ pools' = r.pools
             /\ m' = r.m
             /\ ret' = [NoRet EXCEPT !.op = "RemovePeer", !.id = id, !.err = r.err]
             /\ UNCHANGED <<rwm, th, np, sched>>

PeerCount ==
    /\ ret' = [NoRet EXCEPT !.op = "PeerCount", !.n = PeerManagerLen(m)]
    /\ UNCHANGED <<pools, m, rwm, th, np, sched>>

\* NewPeerManager(pools...) over the pools of a configuration, or over none.
InitServer ==
    /\ \E v4 \in ConfigPrefixes(4), v6 \in ConfigPrefixes(6) :
            pools = IPPools(v4, v6)
    /\ m = NoPeers
    /\ ret = NoRet
    /\ rwm = 0
    /\ th = <<>>
    /\ np = ZeroPrefix
    /\ sched = NewScheduler

NextServer ==
    \/ \E valid \in BOOLEAN, id \in PeerIDs \cup {EmptyID}, cmdOk \in BOOLEAN :
           AddPeer(valid, id, cmdOk)
    \/ \E valid \in BOOLEAN, id \in PeerIDs \cup {EmptyID} : HasPeer(valid, id)
    \/ \E valid \in BOOLEAN, id \in PeerIDs \cup {EmptyID}, cmdOk \in BOOLEAN :
           RemovePeer(valid, id, cmdOk)
    \/ PeerCount

SpecServer == InitServer /\ [][NextServer]_vars

----------------------------------------------------------------------------
(* cron.Scheduler.  A Worker is its name, its MaxRetries and whether its Run *)
(* always fails with OnError returning false; Run and OnError of the other   *)
(* workers return anything.  th holds the worker goroutines of the last      *)
(* Start, in the order of their names.                                       *)

ErrRunning == "scheduler is already running"
ErrDuplicate == "duplicate worker"
PanicClose == "panic: close of closed channel"

MinInt == 0 - 2 ^ (RetryBits - 1)
MaxInt == 2 ^ (RetryBits - 1) - 1

\* Mutant of Incr: the count stays at MaxInt.
IncrSaturates(x) == IF x = MaxInt THEN MaxInt ELSE x + 1

\* retries++ on an int: wraps from MaxInt to MinInt.
Incr(x) == IF x = MaxInt THEN MinInt ELSE x + 1

WorkerNames == 1 .. MaxWorkers

\* Workers registered in the lifecycle specification.
CronWorkers == [name : WorkerNames, maxRetries : {1, 2}, failing : {FALSE}]

\* Workers registered in the retry-loop specification: one name, every
\* MaxRetries value.
RetryWorkers == [name : {1}, maxRetries : MinInt .. MaxInt, failing : BOOLEAN]

WorkerLists(W) == {<<>>} \cup {<<w>> : w \in W} \cup {<<v, w>> : v, w \in W}

\* for _, w := range workers { duplicate check; s.workers[w.Name()] = w }
RECURSIVE RegisterLoop(_, _, _)
RegisterLoop(workers, ws, i) ==
    IF i > Len(ws) THEN [workers |-> workers, err |-> "nil"]
    ELSE IF ws[i].name \in DOMAIN workers
    THEN [workers |-> workers, err |-> ErrDuplicate]
    ELSE RegisterLoop([n \in DOMAIN workers \cup {ws[i].name} |->
                          IF n = ws[i].name
                          THEN [maxRetries |-> ws[i].maxRetries, failing |-> ws[i].failing]
                          ELSE workers[n]],
                      ws, i + 1)

RegisterWorkers(ws) ==
    /\ sched.mu = 0
    /\ IF sched.isRunning
       THEN /\ ret' = [NoRet EXCEPT !.op = "RegisterWorkers", !.err = ErrRunning]
            /\ UNCHANGED sched
       ELSE LET r == RegisterLoop(sched.workers, ws, 1)
            IN  /\ sched' = [sched EXCEPT !.workers = r.workers]
                /\ ret' = [NoRet EXCEPT !.op = "RegisterWorkers", !.err = r.err]
    /\ UNCHANGED <<pools, m, rwm, th, np>>

RECURSIVE NamesInOrder(_)
NamesInOrder(S) ==
    IF S = {} THEN <<>>
    ELSE LET n == CHOOSE x \in S : \A y \in S : x <= y
         IN  <<n>> \o NamesInOrder(S \ {n})

\* go s.runWorker(w): the goroutine at the top of its loop, retries = 0.
NewGoroutine(name, w) ==
    [name |-> name, maxRetries |-> w.maxRetries, failing |-> w.failing,
     pc |-> "select", retries |-> 0, last |-> "none", cause |-> "none", exits |-> 0]

\* Mutant of Start: a running scheduler is started again.
StartAgain ==
    /\ sched.mu = 0
    /\ LET names == NamesInOrder(DOMAIN sched.workers)
       IN  /\ sched' = [sched EXCEPT !.isRunning = TRUE, !.wg = @ + Len(names)]
           /\ th' = [k \in DOMAIN names |-> NewGoroutine(names[k], sched.workers[names[k]])]
           /\ ret' = [NoRet EXCEPT !.op = "Start"]
    /\ UNCHANGED <<pools, m, rwm, np>>

Start ==
    /\ sched.mu = 0
    /\ IF sched.isRunning
       THEN /\ ret' = [NoRet EXCEPT !.op = "Start", !.err = ErrRunning]
            /\ UNCHANGED <<sched, th>>
       ELSE LET names == NamesInOrder(DOMAIN sched.workers)
            IN  /\ sched' = [sched EXCEPT !.isRunning = TRUE, !.wg = @ + Len(names)]
                /\ th' = [k \in DOMAIN names |->
                             NewGoroutine(names[k], sched.workers[names[k]])]
                /\ ret' = [NoRet EXCEPT !.op = "Start"]
    /\ UNCHANGED <<pools, m, rwm, np>>

\* Stop up to s.wg.Wait(): the deferred Unlock runs when close panics.
StopClose ==
    /\ sched.mu = 0
    /\ IF ~sched.isRunning
       THEN /\ ret' = [NoRet EXCEPT !.op = "Stop"]
            /\ UNCHANGED sched
       ELSE IF sched.stopSignal = "closed"
       THEN /\ ret' = [NoRet EXCEPT !.op = "Stop", !.err = PanicClose]
            /\ UNCHANGED sched
       ELSE /\ sched' = [sched EXCEPT !.stopSignal = "closed", !.mu = 1]
            /\ UNCHANGED ret
    /\ UNCHANGED <<pools, m, rwm, th, np>>

\* s.wg.Wait() returns; s.isRunning = false; the deferred Unlock.
StopWait ==
    /\ sched.mu = 1
    /\ sched.wg = 0
    /\ sched' = [sched EXCEPT !.isRunning = FALSE, !.mu = 0]
    /\ ret' = [NoRet EXCEPT !.op = "Stop"]
    /\ UNCHANGED <<pools, m, rwm, th, np>>

\* select { case <-s.stopSignal: return; default: ... }
WorkerSelect(g) ==
    /\ th[g].pc = "select"
    /\ th' = [th EXCEPT ![g] =
                 IF sched.stopSignal = "closed"
                 THEN [@ EXCEPT !.pc = "exit", !.cause = "stop"]
                 ELSE [@ EXCEPT !.pc = "run"]]
    /\ UNCHANGED <<pools, m, ret, rwm, np, sched>>

\* Mutant of WorkerRun: a successful run does not reset retries.
WorkerRunNoReset(g, ok, stop) ==
    /\ th[g].pc = "run"
    /\ th[g].failing => ~ok /\ ~stop
    /\ ok => ~stop
    /\ th' = [th EXCEPT ![g] =
                 IF ok THEN [@ EXCEPT !.pc = "select", !.last = "ok"]
                 ELSE IF stop THEN [@ EXCEPT !.pc = "exit", !.last = "stop", !.cause = "onerror"]
                 ELSE IF Incr(@.retries) = @.maxRetries
                 THEN [@ EXCEPT !.pc = "exit", !.last = "fail", !.cause = "retries",
                                !.retries = Incr(@)]
                 ELSE [@ EXCEPT !.pc = "select", !.last = "fail", !.retries = Incr(@)]]
    /\ UNCHANGED <<pools, m, ret, rwm, np, sched>>

\* The default case: w.Run() returned nil (ok) or an error, for which
\* w.OnError returned stop; on success the goroutine sleeps w.Interval().
WorkerRun(g, ok, stop) ==
    /\ th[g].pc = "run"
    /\ th[g].failing => ~ok /\ ~stop
    /\ ok => ~stop
    /\ th' = [th EXCEPT ![g] =
                 IF ok THEN [@ EXCEPT !.pc = "select", !.last = "ok", !.retries = 0]
                 ELSE IF stop THEN [@ EXCEPT !.pc = "exit", !.last = "stop", !.cause = "onerror"]
                 ELSE IF Incr(@.retries) = @.maxRetries
                 THEN [@ EXCEPT !.pc = "exit", !.last = "fail", !.cause = "retries",
                                !.retries = Incr(@)]
                 ELSE [@ EXCEPT !.pc = "select", !.last = "fail", !.retries = Incr(@)]]
    /\ UNCHANGED <<pools, m, ret, rwm, np, sched>>

\* The deferred function: w.OnExit(); s.wg.Done().  The goroutine has
\* returned and its retries is gone.
WorkerExit(g) ==
    /\ th[g].pc = "exit"
    /\ th' = [th EXCEPT ![g] = [@ EXCEPT !.pc = "done", !.exits = @ + 1, !.retries = 0]]
    /\ sched' = [sched EXCEPT !.wg = @ - 1]
    /\ UNCHANGED <<pools, m, ret, rwm, np>>

InitCron ==
    /\ pools = <<>>
    /\ m = NoPeers
    /\ ret = NoRet
    /\ rwm = 0
    /\ th = <<>>
    /\ np = ZeroPrefix
    /\ sched = NewScheduler

NextCron ==
    \/ \E ws \in WorkerLists(CronWorkers) : RegisterWorkers(ws)
    \/ Start
    \/ StopClose
    \/ StopWait
    \/ \E g \in DOMAIN th : WorkerSelect(g)
    \/ \E g \in DOMAIN th : \E ok, stop \in BOOLEAN : WorkerRun(g, ok, stop)
    \/ \E g \in DOMAIN th : WorkerExit(g)

SpecCron == InitCron /\ [][NextCron]_vars

NextRetry ==
    \/ \E w \in RetryWorkers : RegisterWorkers(<<w>>)
    \/ Start
    \/ StopClose
    \/ StopWait
    \/ \E g \in DOMAIN th : WorkerSelect(g)
    \/ \E g \in DOMAIN th : \E ok, stop \in BOOLEAN : WorkerRun(g, ok, stop)
    \/ \E g \in DOMAIN th : WorkerExit(g)

\* A worker goroutine that can take a step takes one: its Run and OnError
\* return and the Go scheduler runs every runnable goroutine.
WorkerStep(g) ==
    /\ g \in DOMAIN th
    /\ \/ WorkerSelect(g)
       \/ \E ok, stop \in BOOLEAN : WorkerRun(g, ok, stop)
       \/ WorkerExit(g)

SpecRetry ==
    /\ InitCron
    /\ [][NextRetry]_vars
    /\ \A g \in WorkerNames : WF_vars(WorkerStep(g))

----------------------------------------------------------------------------
(* Properties *)

Range(q) == {q[k] : k \in DOMAIN q}

Fresh0(p) == NewIPPoolFromString(p.prefix)

\* n consecutive Get calls on p: the addresses returned, up to the first error.
RECURSIVE GetTimes(_, _, _)
GetTimes(p, n, addrs) ==
    IF n = 0 THEN [pool |-> p, addrs |-> addrs, err |-> "nil"]
    ELSE LET r == IPPoolGet(p)
         IN  IF r.err # "nil" THEN [pool |-> r.pool, addrs |-> addrs, err |-> r.err]
             ELSE GetTimes(r.pool, n - 1, Append(addrs, r.addr))

\* C1: when Acquire fails because a pool has no address, every pool's assigned
\* set is what it was before the call and the identity is not registered.
C1_RollbackRestoresPools ==
    [][(ret'.op = "Acquire" /\ ret'.err = ErrEmpty) =>
          /\ \A i \in DOMAIN pools : pools'[i].assigned = pools[i].assigned
          /\ ~PeerManagerGet(m', ret'.id).found]_vars

\* C2: in every reachable state of a pool no address is both assigned and
\* reserved.
C2_AssignedReservedDisjoint ==
    \A i \in DOMAIN pools : pools[i].assigned \cap pools[i].reserved = {}

\* C3: no address is leased twice.  Get never returns an address that is
\* assigned; the address it returns is then assigned and not in the recycled
\* queue; no assigned address is in the queue; and an address leaves assigned
\* only by a successful Put of that address.
C3_NoDoubleLease ==
    /\ [](\A i \in DOMAIN pools :
             LET p == pools[i]
                 r == IPPoolGet(p)
             IN  /\ p.assigned \cap Range(p.unassigned) = {}
                 /\ r.err = "nil" =>
                        /\ r.addr \notin p.assigned
                        /\ r.addr \in r.pool.assigned
                        /\ r.addr \notin Range(r.pool.unassigned)
                        /\ p.assigned \subseteq r.pool.assigned)
    /\ [][\A i \in DOMAIN pools : \A a \in pools[i].assigned \ pools'[i].assigned :
             /\ ret'.op = "Put" /\ ret'.err = "nil"
             /\ pools'[i].unassigned = Append(pools[i].unassigned, a)]_vars

C3_Witness ==
    /\ ret.op = "Get" /\ ret.err = "nil"
    /\ ret.addr \in pools[1].assigned
    /\ Cardinality(pools[1].assigned) >= 2
    /\ Len(pools[1].unassigned) >= 1

\* C4: Put(a) of an assigned address succeeds, removes a from assigned and
\* appends it to the tail of the queue, and a second Put(a) then fails; Put of
\* an address that is not assigned fails and changes nothing; and an address
\* that is not assigned becomes assigned only by a Get that returns it.
C4_PutRoundTrip ==
    /\ [](\A i \in DOMAIN pools : \A a \in ArgAddrs(pools[i]) :
             LET p == pools[i]
                 r == IPPoolPut(p, a)
             IN  IF a \in p.assigned
                 THEN /\ r.err = "nil"
                      /\ r.pool.assigned = p.assigned \ {a}
                      /\ r.pool.unassigned = Append(p.unassigned, a)
                      /\ r.pool.reserved = p.reserved /\ r.pool.addr = p.addr
                      /\ IPPoolPut(r.pool, a).err = ErrNotAssigned
                      /\ IPPoolPut(r.pool, a).pool = r.pool
                 ELSE r.err = ErrNotAssigned /\ r.pool = p)
    /\ [][\A i \in DOMAIN pools : \A a \in pools'[i].assigned \ pools[i].assigned :
             ret'.op = "Get" /\ ret'.err = "nil" /\ ret'.addr = a]_vars

C4_Witness ==
    /\ ret.op = "Put" /\ ret.err = "nil"
    /\ Len(pools[1].unassigned) >= 2
    /\ pools[1].assigned # {}
    /\ pools[1].reserved \cap Range(pools[1].unassigned) # {}

\* C5: with N the number of addresses of the prefix that construction leaves
\* unreserved, the first N Get calls on a new pool return N pairwise distinct
\* addresses of the prefix and the next Get fails with "pool is empty"; and a
\* pool on which only Get has acted fails exactly when it has leased N.
C5_Exhaustion ==
    \A i \in DOMAIN pools :
        LET p == pools[i]
        IN  /\ p = Fresh0(p) =>
                   LET N == Cardinality(Leasable(p.prefix))
                       g == GetTimes(p, N, <<>>)
                   IN  /\ p.prefix # ZeroPrefix =>
                              N = NetPrefixLen(p.prefix) - Cardinality(p.reserved)
                       /\ g.err = "nil"
                       /\ Len(g.addrs) = N
                       /\ Cardinality(Range(g.addrs)) = N
                       /\ \A a \in Range(g.addrs) : Contains(p.prefix, a)
                       /\ IPPoolGet(g.pool).err = ErrEmpty
            /\ (p.unassigned = <<>> /\ p.reserved = Fresh0(p).reserved) =>
                   (IPPoolGet(p).err = ErrEmpty
                        <=> Cardinality(p.assigned) = Cardinality(Leasable(p.prefix)))

C5_Witness ==
    /\ ret.op = "Get" /\ ret.err = ErrEmpty
    /\ pools[1].unassigned = <<>> /\ pools[1].reserved = Fresh0(pools[1]).reserved
    /\ pools[1].assigned = Leasable(pools[1].prefix)
    /\ Cardinality(pools[1].assigned) >= 2

\* The queue of p is not empty, and Get returns its head, removes it and
\* leaves the cursor where it is.
HeadFirst(p) ==
    LET r == IPPoolGet(p)
    IN  Len(p.unassigned) > 0 =>
           /\ r.err = "nil"
           /\ r.addr = Head(p.unassigned)
           /\ r.pool.unassigned = Tail(p.unassigned)
           /\ r.pool.addr = p.addr

\* Put(a); Put(b) on the empty queue of p: the next two Gets return a then b.
TwoPutsInOrder(p) ==
    Len(p.unassigned) = 0 =>
       \A a, b \in p.assigned :
           a # b =>
              GetTimes(IPPoolPut(IPPoolPut(p, a).pool, b).pool, 2, <<>>).addrs = <<a, b>>

\* Get(); Put(a); Get() on p returns a again.
GetPutGet(p) ==
    LET r == IPPoolGet(p)
    IN  r.err = "nil" => IPPoolGet(IPPoolPut(r.pool, r.addr).pool).addr = r.addr

CursorOnlyOnEmptyQueue ==
    \A i \in DOMAIN pools :
        pools'[i].addr # pools[i].addr => pools[i].unassigned = <<>>

\* C6 as claimed: while the queue is not empty Get returns its head and
\* leaves the cursor where it is; Get(); Put(a); Get() returns a again; Put(a);
\* Put(b) on an empty queue makes the next two Gets return a then b; and the
\* cursor moves only when the queue is empty.
C6_Original ==
    /\ [](\A i \in DOMAIN pools :
             HeadFirst(pools[i]) /\ GetPutGet(pools[i]) /\ TwoPutsInOrder(pools[i]))
    /\ [][CursorOnlyOnEmptyQueue]_vars

\* C6, amended: as claimed, but Get(); Put(a); Get() returns a again only
\* when the first Get leaves the queue empty (the queue held at most one
\* address); otherwise the second Get returns the next address of the queue.
C6_RecycledFirstFIFO ==
    /\ [](\A i \in DOMAIN pools :
             LET p == pools[i]
                 r == IPPoolGet(p)
             IN  /\ HeadFirst(p)
                 /\ TwoPutsInOrder(p)
                 /\ IF Len(r.pool.unassigned) = 0 THEN GetPutGet(p)
                    ELSE IPPoolGet(IPPoolPut(r.pool, r.addr).pool).addr
                             = Head(r.pool.unassigned))
    /\ [][CursorOnlyOnEmptyQueue]_vars

C6_Witness ==
    /\ ret.op = "Get" /\ ret.err = "nil"
    /\ Len(pools[1].unassigned) >= 1
    /\ Contains(pools[1].prefix, pools[1].addr)
    /\ pools[1].addr \notin pools[1].reserved

\* C7: N goroutines call PeerManager.Put with distinct identities on a
\* registry over one pool that can lease exactly N addresses.  Under every
\* interleaving each call that has returned succeeded with one address, was
\* registered with it, and no two of them got the same address; the later call
\* with a fresh identity fails with "pool is empty" and registers nothing.
C7_ConcurrentAcquire ==
    LET N == Len(th) - 1
    IN  /\ \A t \in 1 .. N :
               th[t].pc = "done" =>
                  /\ th[t].err = "nil"
                  /\ Len(th[t].addrs) = Len(pools)
                  /\ PeerManagerGet(m, t) = [found |-> TRUE, addrs |-> th[t].addrs]
                  /\ \A u \in 1 .. N :
                         (u # t /\ th[u].pc = "done") =>
                            Range(th[u].addrs) \cap Range(th[t].addrs) = {}
        /\ th[Fresh].pc = "done" =>
               /\ th[Fresh].err = ErrEmpty
               /\ th[Fresh].addrs = <<>>
               /\ ~PeerManagerGet(m, Fresh).found
               /\ DOMAIN m = 1 .. N
               /\ pools[1].assigned = Leasable(pools[1].prefix)

C7_Witness ==
    /\ Len(th) >= 3
    /\ th[Fresh].pc = "done"
    /\ PeerManagerLen(m) = Len(th) - 1

\* C8: PeerManager.Put with the empty identity, or with an identity that is
\* registered, fails and leaves the peer map and every pool as they were.
C8_AcquireMisuseNoEffect ==
    \A id \in {EmptyID} \cup DOMAIN m :
        LET r == PeerManagerPut(pools, m, id)
        IN  /\ r.err = (IF id = EmptyID THEN ErrEmptyID ELSE ErrExists)
            /\ r.addrs = <<>>
            /\ r.m = m
            /\ r.pools = pools

C8_Witness ==
    /\ ret.op = "Acquire" /\ ret.err = ErrExists
    /\ ret.id \in DOMAIN m
    /\ PeerManagerLen(m) >= 2

\* How many times a occurs in the queue q.
Occurrences(q, a) == Cardinality({k \in DOMAIN q : q[k] = a})

\* C9: PeerManager.Delete of an identity that is not registered returns
\* normally and changes neither the peer map nor any pool; Delete twice on a
\* registered identity returns each of its addresses to its pool once, the
\* second call changing nothing.
C9_ReleaseIdempotent ==
    \A id \in PeerIDs \cup {EmptyID} :
        LET d1 == PeerManagerDelete(pools, m, id)
            d2 == PeerManagerDelete(d1.pools, d1.m, id)
        IN  IF id \notin DOMAIN m
            THEN d1 = [pools |-> pools, m |-> m, err |-> "nil"]
            ELSE /\ d1.err = "nil"
                 /\ d2 = d1
                 /\ \A i \in DOMAIN m[id] :
                        Occurrences(d2.pools[i].unassigned, m[id][i])
                            = Occurrences(pools[i].unassigned, m[id][i]) + 1

C9_Witness ==
    /\ ret.op = "Release" /\ ret.err = "nil"
    /\ ret.id \in PeerIDs \ DOMAIN m
    /\ m # NoPeers
    /\ \A i \in DOMAIN pools : Len(pools[i].unassigned) >= 1

\* C10: PeerManager.Delete of a registered identity puts its i-th address
\* back into pool i for every position i: the address leaves assigned and is
\* the tail of the queue; the entry is removed, Len is one less, and every
\* other entry is unchanged.
C10_ReleaseEffect ==
    \A id \in DOMAIN m :
        LET d == PeerManagerDelete(pools, m, id)
        IN  /\ d.err = "nil"
            /\ DOMAIN m[id] = DOMAIN pools
            /\ \A i \in DOMAIN pools :
                   /\ m[id][i] \in pools[i].assigned
                   /\ d.pools[i].assigned = pools[i].assigned \ {m[id][i]}
                   /\ d.pools[i].unassigned = Append(pools[i].unassigned, m[id][i])
                   /\ d.pools[i].reserved = pools[i].reserved
                   /\ d.pools[i].addr = pools[i].addr
            /\ ~PeerManagerGet(d.m, id).found
            /\ PeerManagerLen(d.m) = PeerManagerLen(m) - 1
            /\ \A k \in DOMAIN m \ {id} : PeerManagerGet(d.m, k) = PeerManagerGet(m, k)

C10_Witness ==
    /\ ret.op = "Release" /\ ret.err = "nil"
    /\ Len(pools) = 2
    /\ ret.id \in PeerIDs \ DOMAIN m
    /\ m # NoPeers
    /\ \A i \in DOMAIN pools :
           /\ Len(pools[i].unassigned) >= 1
           /\ pools[i].unassigned[Len(pools[i].unassigned)] \notin pools[i].assigned

\* The number of addresses of the block of a parsed prefix.
BlockSize(p) == 2 ^ (Width(p.fam) - p.bits)

\* C11: every entry of the peer map holds one address per pool, the i-th one
\* inside the prefix of the i-th pool; PeerManager.Put, when it succeeds,
\* returns the list it stored under the identity and leaves the other entries
\* alone, and when it fails it leaves the peer map as it was.
C11_EntryShape ==
    /\ \A id \in DOMAIN m :
           /\ Len(m[id]) = Len(pools)
           /\ \A i \in DOMAIN pools : Contains(pools[i].prefix, m[id][i])
    /\ \A id \in PeerIDs \cup {EmptyID} :
           LET r == PeerManagerPut(pools, m, id)
           IN  IF r.err = "nil"
               THEN /\ DOMAIN r.m = DOMAIN m \cup {id}
                    /\ r.m[id] = r.addrs
                    /\ Len(r.addrs) = Len(pools)
                    /\ \A i \in DOMAIN pools : r.addrs[i] \in r.pools[i].assigned
                    /\ \A k \in DOMAIN m : r.m[k] = m[k]
               ELSE r.m = m

C11_Witness ==
    /\ ret.op = "Acquire" /\ ret.err = "nil"
    /\ Len(pools) = 2
    /\ ret.id \in DOMAIN m
    /\ m[ret.id] = ret.addrs
    /\ Contains(pools[1].prefix, ret.addrs[1]) /\ Contains(pools[2].prefix, ret.addrs[2])
    /\ PeerManagerLen(m) >= 2


\* The prefix's own address, the address with all host bits zero and, for
\* IPv4, the address with all host bits one.
ConstructionReserved(prefix) ==
    LET net == prefix.addr - (prefix.addr % BlockSize(prefix))
    IN  {[fam |-> prefix.fam, val |-> prefix.addr], [fam |-> prefix.fam, val |-> net]}
            \cup (IF prefix.fam = 4
                  THEN {[fam |-> 4, val |-> net + BlockSize(prefix) - 1]}
                  ELSE {})

\* C12: a pool built from a prefix has the prefix's own address, the network
\* address and, for IPv4, the broadcast address reserved from construction on;
\* in every state reached by Get, Put and Reserve calls they are reserved, not
\* assigned and not in the queue, Get does not return them and Put of any of
\* them fails with "addr is not assigned" changing nothing.
C12_ConstructionReserved ==
    \A i \in DOMAIN pools :
        LET p == pools[i]
            g == IPPoolGet(p)
        IN  p.prefix # ZeroPrefix =>
               /\ ConstructionReserved(p.prefix) \subseteq Fresh0(p).reserved
               /\ ConstructionReserved(p.prefix) \subseteq p.reserved
               /\ ConstructionReserved(p.prefix) \cap p.assigned = {}
               /\ ConstructionReserved(p.prefix) \cap Range(p.unassigned) = {}
               /\ g.err = "nil" => g.addr \notin ConstructionReserved(p.prefix)
               /\ \A a \in ConstructionReserved(p.prefix) :
                      IPPoolPut(p, a) = [pool |-> p, err |-> ErrNotAssigned, addr |-> a]

C12_Witness ==
    /\ ret.op = "Get" /\ ret.err = "nil"
    /\ pools[1].prefix.fam = 4
    /\ Cardinality(ConstructionReserved(pools[1].prefix)) = 3
    /\ ExplicitReserved(pools[1]) # {}
    /\ ret.addr \in pools[1].assigned

\* The addresses Get has returned so far: each is assigned or, after its Put,
\* in the queue.
EverLeased(p) == p.assigned \cup Range(p.unassigned)

\* Reserved addresses that Get has never returned.
Excluded(p) == p.reserved \ EverLeased(p)

\* Get called on p until it fails: the addresses returned.
Drain(p) == GetTimes(p, MaxVal(4) + 1 + Len(p.unassigned), <<>>).addrs

\* C13: when Reserve(addr) succeeds on an address Get has never returned, addr
\* is excluded: no later Get returns it, whatever Get and Put calls follow, and
\* the number of addresses the pool can still lease is one less.  An address
\* counts as returned exactly when it is assigned or queued: it enters those
\* only by a Get returning it and never leaves them.
C13_ReserveExcludes ==
    /\ [](\A i \in DOMAIN pools :
             LET p == pools[i]
                 before == Drain(p)
             IN  /\ \A a \in ArgAddrs(p) \ EverLeased(p) :
                        LET r == IPPoolReserve(p, a)
                            after == Drain(r.pool)
                        IN  r.err = "nil" =>
                               /\ a \in Excluded(r.pool)
                               /\ a \in Range(before)
                               /\ a \notin Range(after)
                               /\ Len(after) = Len(before) - 1
                 /\ \A a \in Excluded(p) :
                        /\ IPPoolGet(p).addr # a
                        /\ a \notin Range(before))
    /\ [][\A i \in DOMAIN pools :
             \/ pools'[i] = pools[i]
             \/ /\ Excluded(pools[i]) \subseteq Excluded(pools'[i])
                /\ EverLeased(pools[i]) \subseteq EverLeased(pools'[i])
                /\ \A a \in EverLeased(pools'[i]) \ EverLeased(pools[i]) :
                       ret'.op = "Get" /\ ret'.err = "nil" /\ ret'.addr = a]_vars

C13_Witness ==
    /\ ret.op = "Get" /\ ret.err = ErrEmpty
    /\ \E a \in ExplicitReserved(pools[1]) \cap Excluded(pools[1]) :
           \E b \in pools[1].assigned : b.val > a.val

\* a is an address of the block of prefix.
InBlock(prefix, a) ==
    /\ prefix # ZeroPrefix
    /\ a.fam = prefix.fam
    /\ a.val - (a.val % BlockSize(prefix)) = prefix.addr - (prefix.addr % BlockSize(prefix))

\* C14: Reserve(addr) fails with "addr is outside of prefix" when addr is not
\* in the pool's prefix, with "addr is already assigned or reserved" when addr
\* is assigned or reserved, and otherwise succeeds adding addr to reserved and
\* changing nothing else; a failed Reserve changes nothing.  Assigned and
\* reserved addresses are inside the prefix, reserved changes only by a
\* successful Reserve, and no address that is assigned becomes reserved.
C14_ReserveOutcomes ==
    /\ [](\A i \in DOMAIN pools :
             LET p == pools[i]
             IN  /\ \A a \in p.assigned \cup p.reserved : InBlock(p.prefix, a)
                 /\ \A a \in ArgAddrs(p) :
                        LET r == IPPoolReserve(p, a)
                        IN  IF ~InBlock(p.prefix, a)
                            THEN r.err = ErrOutside /\ r.pool = p
                            ELSE IF a \in p.assigned \/ a \in p.reserved
                            THEN r.err = ErrInUse /\ r.pool = p
                            ELSE /\ r.err = "nil"
                                 /\ r.pool.reserved = p.reserved \cup {a}
                                 /\ r.pool.assigned = p.assigned
                                 /\ r.pool.unassigned = p.unassigned
                                 /\ r.pool.addr = p.addr
                                 /\ r.pool.prefix = p.prefix)
    /\ [][\A i \in DOMAIN pools :
             \/ pools'[i] = pools[i]
             \/ /\ ~(ret'.op = "Reserve" /\ ret'.err # "nil")
                /\ pools[i].reserved \subseteq pools'[i].reserved
                /\ (pools'[i].reserved \ pools[i].reserved) \cap pools[i].assigned = {}
                /\ pools'[i].reserved # pools[i].reserved =>
                       ret'.op = "Reserve" /\ ret'.err = "nil"]_vars

C14_Witness ==
    /\ ret.op = "Reserve" /\ ret.err = ErrInUse
    /\ pools[1].assigned # {}
    /\ ExplicitReserved(pools[1]) # {}
    /\ Len(pools[1].unassigned) >= 1

\* C15: Get fails, with "pool is empty", only when every address of the
\* prefix is reserved or assigned, so it succeeds whenever some address is
\* neither.  A failed Get leaves assigned, reserved and the queue as they
\* were, and after a Put on the exhausted pool the next Get succeeds.
C15_GetFailsOnlyWhenFull ==
    \A i \in DOMAIN pools :
        LET p == pools[i]
            g == IPPoolGet(p)
            free == {a \in PoolAddrsOf(p.prefix.fam) : InBlock(p.prefix, a)}
                        \ (p.reserved \cup p.assigned)
        IN  /\ g.err \in {"nil", ErrEmpty}
            /\ free # {} => g.err = "nil"
            /\ g.err = ErrEmpty =>
                   /\ free = {}
                   /\ g.addr = ZeroAddr
                   /\ g.pool.assigned = p.assigned
                   /\ g.pool.reserved = p.reserved
                   /\ g.pool.unassigned = p.unassigned
                   /\ \A a \in p.assigned :
                          LET q == IPPoolPut(g.pool, a)
                          IN  /\ q.err = "nil"
                              /\ IPPoolGet(q.pool).err = "nil"
                              /\ IPPoolGet(q.pool).addr = a

C15_Witness ==
    /\ ret.op = "Get" /\ ret.err = "nil"
    /\ pools[1].prefix.fam = 4
    /\ ~Contains(pools[1].prefix, pools[1].addr)
    /\ ret.addr \in pools[1].assigned
    /\ pools[1].unassigned = <<>>

\* C16: NetPrefix.Len is 2^(addrBits - prefixBits) for every prefix of either
\* family, a value an int64 holds, and it is 0 only when addrBits - prefixBits
\* is negative.
C16_LenIsBlockSize ==
    np # ZeroPrefix =>
        /\ NetPrefixLen(np) = BlockSize(np)
        /\ NetPrefixLen(np) <= 2 ^ (IntBits - 1) - 1
        /\ NetPrefixLen(np) # 0

\* C17: NetPrefix.Addrs fails with the too-large error for every block of more
\* than maxNetPrefixSize addresses, never returns more than maxNetPrefixSize
\* addresses, and succeeds for every block of at most maxNetPrefixSize.
C17_EnumerationCap ==
    np # ZeroPrefix =>
        LET r == NetPrefixAddrs(np)
        IN  /\ BlockSize(np) > maxNetPrefixSize => r.err = ErrTooLarge
            /\ Len(r.addrs) <= maxNetPrefixSize
            /\ BlockSize(np) <= maxNetPrefixSize => r.err = "nil"

\* C18: NetPrefix.Validate returns an error exactly for the blocks of more
\* than maxNetPrefixSize addresses, and NewNetPrefixFromString rejects the text
\* of such a block.
C18_ValidateChecksSize ==
    /\ np # ZeroPrefix => (Validate(np) # "nil" <=> BlockSize(np) > maxNetPrefixSize)
    /\ \A s \in Prefixes :
           BlockSize(s) > maxNetPrefixSize => NewNetPrefixFromString(s).err # "nil"

\* C19: for an IPv4 prefix a/n NetworkAddr is a with its host bits cleared and
\* BroadcastAddr is a with its host bits set (both a when n is the address
\* width); both are in the prefix and every member lies between them.  For an
\* IPv6 prefix BroadcastAddr returns an error.
C19_NetworkBroadcast ==
    np # ZeroPrefix =>
        LET host == np.addr % BlockSize(np)
            net  == NetworkAddr(np)
            bc   == BroadcastAddr(np)
        IN  IF np.fam = 4
            THEN /\ net = [fam |-> 4, val |-> np.addr - host]
                 /\ bc.err = "nil"
                 /\ bc.addr = [fam |-> 4, val |-> np.addr - host + BlockSize(np) - 1]
                 /\ np.bits = AddrBits => net = PrefixAddr(np) /\ bc.addr = PrefixAddr(np)
                 /\ Contains(np, net) /\ Contains(np, bc.addr)
                 /\ \A a \in Addrs :
                        Contains(np, a) => net.val <= a.val /\ a.val <= bc.addr.val
            ELSE bc.err # "nil"

C19_Witness ==
    /\ ret.op = "BroadcastAddr" /\ ret.err = "nil"
    /\ np.fam = 4 /\ np.bits = 0 /\ np.addr = 1
    /\ ret.addr = [fam |-> 4, val |-> MaxVal(4)]

\* Goroutines inside the body of a call that holds rwm for reading.
Readers == {t \in DOMAIN th : th[t].op \in {"Get", "Len"} /\ th[t].pc \in {"read", "unlock"}}

\* Goroutines inside the body of a call that holds rwm for writing.
Writers ==
    {t \in DOMAIN th :
        /\ th[t].op \in {"Put", "Delete"}
        /\ th[t].pc \in {"check", "loop", "deferred", "find", "put", "unlock"}}

\* Goroutines inside the body of a pool method.
InPool ==
    {t \in DOMAIN th :
        /\ th[t].op \in PoolOps
        /\ th[t].pc \in {"body", "assign", "delete", "append", "mark", "unlock"}}

\* Every entry of the peer map holds one address per pool, assigned in it.
EntriesWhole ==
    \A id \in DOMAIN m :
        /\ Len(m[id]) = Len(pools)
        /\ \A i \in DOMAIN pools : m[id][i] \in pools[i].assigned

\* Goroutine t has run its body and still holds its lock: the instance and
\* the values t returns are those of the method run in one step on the
\* instance as it was when t took the lock.
RanAtomically(t) ==
    LET c  == th[t]
        s  == c.snap
        pl == [pools EXCEPT ![1].m = 0]
    IN  CASE c.op = "Put" ->
                LET r == PeerManagerPut(s.pools, s.m, c.id)
                IN  pools = r.pools /\ m = r.m /\ c.addrs = r.addrs /\ c.err = r.err
          [] c.op = "Delete" ->
                LET r == PeerManagerDelete(s.pools, s.m, c.id)
                IN  pools = r.pools /\ m = r.m /\ c.err = r.err
          [] c.op = "Get" ->
                /\ pools = s.pools /\ m = s.m
                /\ [found |-> c.found, addrs |-> c.addrs] = PeerManagerGet(s.m, c.id)
          [] c.op = "Len" ->
                pools = s.pools /\ m = s.m /\ c.n = PeerManagerLen(s.m)
          [] c.op = "IPPool.Get" ->
                LET r == IPPoolGet(s.pools[1])
                IN  pl[1] = r.pool /\ c.addr = r.addr /\ c.err = r.err
          [] c.op = "IPPool.Put" ->
                LET r == IPPoolPut(s.pools[1], c.arg)
                IN  pl[1] = r.pool /\ c.err = r.err
          [] c.op = "IPPool.Reserve" ->
                LET r == IPPoolReserve(s.pools[1], c.arg)
                IN  pl[1] = r.pool /\ c.err = r.err

\* C20: calls on one IPPool, and calls on one PeerManager, are serialized.
\* The body of a pool method runs with the pool's mutex held and alone; the
\* body of Put or Delete runs with rwm held for writing, alone and with no
\* reader inside; Get and Len run with rwm held for reading.  When a call has
\* run its body, the instance and the returned values are those of the whole
\* method applied in one step to the instance as it was when the call took
\* the lock, so the calls take effect one after another in the order of
\* their locks.  While no writer is inside, so whenever Get or Len reads,
\* every entry of the peer map is whole.
C20_Serialized ==
    /\ \A t \in InPool : pools[1].m = t
    /\ InPool = {} => \A i \in DOMAIN pools : pools[i].m = 0
    /\ \A t \in Writers : rwm = t /\ Readers = {}
    /\ Writers = {} => rwm = 0 - Cardinality(Readers)
    /\ \A t \in DOMAIN th : th[t].pc = "unlock" => RanAtomically(t)
    /\ \A t \in Readers : m = th[t].snap.m /\ pools = th[t].snap.pools
    /\ Writers = {} => EntriesWhole

C20_Witness ==
    \E t, u \in DOMAIN th :
        /\ th[t].op = "Get" /\ th[t].pc = "unlock" /\ th[t].found
        /\ th[u].op = "Delete" /\ th[u].pc = "call" /\ th[u].id = th[t].id
        /\ Len(pools) = 2

\* The operations of the registry that only read.
ReadOnlyOps == {"Lookup", "Count", "ForEach"}

\* C21: Lookup, Count and ForEach leave the peer map and every pool as they
\* were.  The identities in the map are exactly those whose Acquire succeeded
\* and that were not released since: only a successful Acquire adds its
\* identity, only a Release removes its identity, and nothing else changes the
\* map.  Lookup returns the entry exactly for those identities, Count is their
\* number, and ForEach calls the callback at most once per entry, once for
\* each when the callback never stops or fails.
C21_ReadOnly ==
    /\ [](/\ ret.op = "Lookup" =>
                /\ ret.found <=> ret.id \in DOMAIN m
                /\ ret.found => ret.addrs = m[ret.id]
          /\ ret.op = "Count" => ret.n = Cardinality(DOMAIN m)
          /\ ret.op = "ForEach" =>
                /\ ret.n <= Cardinality(DOMAIN m)
                /\ ret.err = "nil" \/ ret.err = ErrCallback
          /\ \A order \in RangeOrders(m) :
                PeerManagerIterate(m, order, [id \in PeerIDs |-> "continue"])
                    = [err |-> "nil", n |-> Cardinality(DOMAIN m)])
    /\ [][/\ ret'.op \in ReadOnlyOps => m' = m /\ pools' = pools
          /\ DOMAIN m' =
                IF ret'.op = "Acquire" /\ ret'.err = "nil"
                THEN DOMAIN m \cup {ret'.id}
                ELSE IF ret'.op = "Release" /\ ret'.err = "nil"
                THEN DOMAIN m \ {ret'.id}
                ELSE DOMAIN m
          /\ \A id \in DOMAIN m \cap DOMAIN m' : m'[id] = m[id]
          /\ (ret'.op = "Acquire" /\ ret'.err = "nil") =>
                ret'.id \notin DOMAIN m /\ m'[ret'.id] = ret'.addrs]_vars

C21_Witness ==
    /\ ret.op = "Lookup" /\ ret.found
    /\ PeerManagerLen(m) >= 1
    /\ PeerManagerLen(m) < NumPeers
    /\ \E i \in DOMAIN pools : pools[i].unassigned # <<>>

\* Goroutine t is in the loop of Delete and the Put it is about to make fails.
PutWillFail(t) ==
    /\ th[t].op = "Delete" /\ th[t].pc = "put"
    /\ th[t].i <= Len(th[t].addrs)
    /\ IPPoolPut(pools[th[t].i], th[t].addrs[th[t].i]).err # "nil"

\* Goroutine t has panicked in Delete and its deferred Unlock has not run yet.
Panicked(t) == th[t].op = "Delete" /\ th[t].pc = "unlock" /\ th[t].err = Panic

\* C22: a Put failure during Release is not swallowed.  When a Put of the
\* loop of Delete fails, Delete panics at that Put: the loop stops, the entry
\* stays in the map with its addresses, and the deferred Unlock releases rwm.
\* Delete panics only then, and only a Delete that did not panic removes an
\* entry.  The Put fails with "addr is not assigned" exactly when the address
\* of the entry is no longer assigned in its pool, as after an outside Put.
C22_ReleasePanics ==
    /\ [](\A t \in DOMAIN th :
             /\ Panicked(t) =>
                   /\ rwm = t
                   /\ th[t].id \in DOMAIN m
                   /\ m[th[t].id] = th[t].addrs
             /\ (th[t].op = "Delete" /\ th[t].pc = "put" /\ th[t].i <= Len(th[t].addrs)) =>
                   LET r == IPPoolPut(pools[th[t].i], th[t].addrs[th[t].i])
                   IN  /\ r.err \in {"nil", ErrNotAssigned}
                       /\ r.err = ErrNotAssigned <=>
                              th[t].addrs[th[t].i] \notin pools[th[t].i].assigned)
    /\ [][\A t \in DOMAIN th :
             /\ (PutWillFail(t) /\ th'[t] # th[t]) =>
                   /\ th'[t].pc = "unlock" /\ th'[t].err = Panic
                   /\ m' = m /\ pools' = pools /\ rwm' = t
             /\ (th[t].op = "Delete" /\ th'[t].err = Panic /\ th[t].err # Panic) =>
                   PutWillFail(t)
             /\ (Panicked(t) /\ th'[t] # th[t]) =>
                   /\ rwm' = 0
                   /\ m' = m /\ pools' = pools
                   /\ th'[t].pc = "done"
             /\ (th[t].op = "Delete" /\ rwm = t /\ m' # m) =>
                   /\ th[t].pc = "put" /\ th[t].err = "nil" /\ th[t].i > Len(th[t].addrs)
                   /\ DOMAIN m' = DOMAIN m \ {th[t].id}
                   /\ th'[t].pc = "unlock" /\ th'[t].err = "nil"]_vars

C22_Witness ==
    \E t \in DOMAIN th :
        /\ Panicked(t)
        /\ th[t].i = 2
        /\ th[t].addrs[1] \in Range(pools[1].unassigned)
        /\ ret.op = "Put" /\ ret.err = "nil"

\* The i-th addresses of the registered peers.
Attributed(i) == {m[id][i] : id \in DOMAIN m}

\* C23: between registry calls, the assigned set of pool i is exactly the set
\* of i-th addresses of the registered peers, and each pool has as many
\* assigned addresses as there are registered peers.
C23_RegistryConsistent ==
    \A i \in DOMAIN pools :
        /\ pools[i].assigned = Attributed(i)
        /\ Cardinality(pools[i].assigned) = PeerManagerLen(m)

\* The position of the cursor: the zero Addr, which Next returns after the
\* last address of the family, is past every address.
Pos(p) == IF IsValid(p.addr) THEN p.addr.val ELSE MaxVal(p.prefix.fam) + 1

\* The addresses of the prefix at or after the cursor.
Remaining(p) ==
    {a \in PoolAddrsOf(p.prefix.fam) : InBlock(p.prefix, a) /\ a.val >= Pos(p)}

\* C24: Get always returns, with an address or with "pool is empty", and in
\* every state a Get call can be made: it does not wait for a Put.  It steps
\* the cursor at most once per address of the prefix at or after the cursor,
\* the cursor ending that many addresses further, and not at all when the
\* queue has an address.  Across all calls the cursor never moves backwards,
\* and only Get moves it.
C24_GetTerminates ==
    /\ [](\A i \in DOMAIN pools :
             LET p == pools[i]
                 g == IPPoolGet(p)
             IN  /\ g.err \in {"nil", ErrEmpty}
                 /\ g.err = ErrEmpty <=> g.addr = ZeroAddr
                 /\ CursorSteps(p) <= Cardinality(Remaining(p))
                 /\ Pos(g.pool) = Pos(p) + CursorSteps(p)
                 /\ ENABLED CallGet(i))
    /\ [][\A i \in DOMAIN pools :
             \/ pools'[i].addr = pools[i].addr
             \/ /\ Pos(pools'[i]) > Pos(pools[i])
                /\ ret'.op = "Get"
                /\ pools[i].unassigned = <<>>]_vars

C24_Witness ==
    /\ ret.op = "Get" /\ ret.err = ErrEmpty
    /\ pools[1].assigned # {}
    /\ \E a \in ExplicitReserved(pools[1]) \ EverLeased(pools[1]) :
           \A b \in pools[1].assigned : b.val < a.val
    /\ Remaining(pools[1]) = {}

\* The pool NewIPPoolFromString("") returns.
Degenerate ==
    [assigned |-> {}, reserved |-> {}, unassigned |-> <<>>, addr |-> ZeroAddr,
     prefix |-> ZeroPrefix, m |-> 0]

\* C25: NewIPPoolFromString("") succeeds and yields a pool over no address.
\* On it every Get fails with "pool is empty", every Reserve with "addr is
\* outside of prefix" and every Put with "addr is not assigned", whatever the
\* address, so the pool never changes.  ServerConfig.IPPools builds no such
\* pool: its list has one pool per non-empty address field, none of them
\* degenerate, the pool of ipv4_addr before the pool of ipv6_addr.
C25_DegeneratePool ==
    /\ NewNetPrefixFromString(ZeroPrefix) = [err |-> "nil", prefix |-> ZeroPrefix]
    /\ NewIPPoolFromString(ZeroPrefix) = Degenerate
    /\ \A i \in DOMAIN pools :
           pools[i].prefix = ZeroPrefix =>
              /\ pools[i] = Degenerate
              /\ IPPoolGet(pools[i]) = [pool |-> pools[i], err |-> ErrEmpty, addr |-> ZeroAddr]
              /\ \A a \in Addrs \cup {ZeroAddr} :
                     /\ IPPoolReserve(pools[i], a).err = ErrOutside
                     /\ IPPoolReserve(pools[i], a).pool = pools[i]
                     /\ IPPoolPut(pools[i], a).err = ErrNotAssigned
                     /\ IPPoolPut(pools[i], a).pool = pools[i]
    /\ ret.op = "new" =>
           \A v \in PoolPrefixes \cup {ZeroPrefix} :
               \A c \in {<<pools[1].prefix, v>>, <<v, pools[1].prefix>>} :
                   LET l == IPPools(c[1], c[2])
                       n == (IF c[1] = ZeroPrefix THEN 0 ELSE 1)
                                + (IF c[2] = ZeroPrefix THEN 0 ELSE 1)
                   IN  /\ Len(l) = n
                       /\ \A k \in DOMAIN l : l[k] # Degenerate /\ l[k].prefix # ZeroPrefix
                       /\ c[1] # ZeroPrefix => l[1] = NewIPPoolFromString(c[1])
                       /\ c[2] # ZeroPrefix => l[n] = NewIPPoolFromString(c[2])
                       /\ (n = 2 /\ c[1].fam = 4 /\ c[2].fam = 6) =>
                              Is4(l[1].addr) /\ ~Is4(l[2].addr)

C25_Witness ==
    /\ pools[1] = Degenerate
    /\ ret.op = "Reserve" /\ ret.err = ErrOutside

\* The addresses of the pool's prefix.
PrefixAddrs(p) == {a \in PoolAddrsOf(p.prefix.fam) : Contains(p.prefix, a)}

\* C26: the recycled queue holds no address twice and none that is assigned;
\* every assigned or queued address lies inside the prefix and strictly before
\* the cursor; every address of the prefix strictly before the cursor is
\* reserved, assigned or queued.
C26_QueueInvariant ==
    \A i \in DOMAIN pools :
        LET p == pools[i]
            q == p.unassigned
        IN  /\ \A j, k \in DOMAIN q : j # k => q[j] # q[k]
            /\ Range(q) \cap p.assigned = {}
            /\ \A a \in p.assigned \cup Range(q) :
                   Contains(p.prefix, a) /\ a.val < Pos(p)
            /\ \A a \in PrefixAddrs(p) :
                   a.val < Pos(p) => a \in p.reserved \cup p.assigned \cup Range(q)

C26_Witness ==
    /\ Len(pools[1].unassigned) = 2
    /\ pools[1].assigned # {}
    /\ ret.op = "Put" /\ ret.err = "nil"

\* C27: while outside callers call only Get and Reserve on the pools, every
\* address of every registry entry is assigned in its pool, so no Put of a
\* Release fails: Delete panics for no identity, and no Release has panicked.
C27_ReleaseNeverPanics ==
    /\ \A id \in DOMAIN m :
           /\ Len(m[id]) = Len(pools)
           /\ \A i \in DOMAIN m[id] : m[id][i] \in pools[i].assigned
    /\ \A id \in PeerIDs \cup {EmptyID} :
           PeerManagerDelete(pools, m, id).err = "nil"
    /\ ret.err # Panic

\* A Release has removed an entry after outside callers leased and reserved
\* addresses of the pools, while another peer is still registered.
C27_Witness ==
    /\ ret.op = "Release" /\ ret.err = "nil"
    /\ ret.id \notin DOMAIN m
    /\ m # NoPeers
    /\ \A i \in DOMAIN pools : pools[i].unassigned # <<>>
    /\ \E i \in DOMAIN pools : pools[i].assigned \ Attributed(i) # {}
    /\ \E i \in DOMAIN pools : ExplicitReserved(pools[i]) # {}

\* The identity is registered with one leased address per pool.
Registered(mm, ps, id) ==
    /\ id \in DOMAIN mm
    /\ Len(mm[id]) = Len(ps)
    /\ \A i \in DOMAIN ps : mm[id][i] \in ps[i].assigned

\* C28: AddPeer registers the identity before running the command and does not
\* undo the registration: when the command fails, or the leased address list
\* is empty, it returns an error and the identity is registered with its
\* addresses leased.  While an identity is registered, AddPeer for it fails as
\* already existing and changes nothing, and only a RemovePeer for it that
\* returns nil removes it.  RemovePeer removes the entry when its command
\* succeeded and leaves the registry and the pools unchanged when it failed.
C28_NoCompensation ==
    [][/\ (ret'.op = "AddPeer" /\ ret'.err \in {ErrCommand, ErrNoAddrs}) =>
              /\ ret'.id \notin DOMAIN m
              /\ Registered(m', pools', ret'.id)
              /\ (ret'.err = ErrNoAddrs) <=> (Len(pools) = 0)
              /\ ret'.addrs = <<>>
              /\ PeerManagerPut(pools', m', ret'.id).err = ErrExists
       /\ (ret'.op = "AddPeer" /\ ret'.err = "nil") =>
              /\ Registered(m', pools', ret'.id)
              /\ ret'.addrs = m'[ret'.id] /\ ret'.addrs # <<>>
       /\ (ret'.op = "AddPeer" /\ ret'.id \in DOMAIN m
                /\ ret'.err # ErrInvalidRequest) =>
              /\ ret'.err = FailedToPutPeer(ErrExists)
              /\ m' = m /\ pools' = pools
       /\ \A id \in DOMAIN m \ DOMAIN m' :
              ret' = [NoRet EXCEPT !.op = "RemovePeer", !.id = id]
       /\ ret'.op = "RemovePeer" =>
              /\ ret'.err \in {"nil", ErrInvalidRequest, ErrCommand}
              /\ ret'.err # "nil" => m' = m /\ pools' = pools
              /\ ret'.err = "nil" =>
                     /\ DOMAIN m' = DOMAIN m \ {ret'.id}
                     /\ \A i \in DOMAIN pools :
                            pools'[i].assigned =
                                pools[i].assigned \
                                   (IF ret'.id \in DOMAIN m THEN {m[ret'.id][i]} ELSE {})
      ]_vars

\* AddPeer has failed on its command and left the peer registered with its
\* addresses.
C28_Witness ==
    /\ ret.op = "AddPeer" /\ ret.err = ErrCommand
    /\ Registered(m, pools, ret.id)
    /\ Len(m[ret.id]) = 2

\* C29: Start and RegisterWorkers on a running scheduler fail, and while it
\* runs no worker is added and no goroutine launched.  The scheduler stops
\* running only in a Stop that returns normally after every worker goroutine
\* is done with OnExit run once.  Every Stop on a running scheduler returns
\* normally and leaves it not running; no call panics.  While the scheduler
\* runs and no Stop is in progress the stop channel is open, so the workers a
\* Start launched execute Run.
C29_Lifecycle ==
    /\ [](ret.err # PanicClose)
    /\ []((sched.isRunning /\ sched.mu = 0) => sched.stopSignal = "open")
    /\ [][/\ (ret' # ret /\ ret'.op \in {"Start", "RegisterWorkers"}
                  /\ sched.isRunning) =>
                 /\ ret'.err = ErrRunning
                 /\ sched' = sched /\ th' = th
          /\ sched.isRunning =>
                 /\ sched'.workers = sched.workers
                 /\ DOMAIN th' = DOMAIN th
                 /\ \A g \in DOMAIN th : th[g].pc = "done" => th'[g] = th[g]
          /\ (sched.isRunning /\ ~sched'.isRunning) =>
                 /\ ret' = [NoRet EXCEPT !.op = "Stop"]
                 /\ sched.wg = 0
                 /\ \A g \in DOMAIN th : th[g].pc = "done" /\ th[g].exits = 1
          /\ (ret' # ret /\ ret'.op = "Stop" /\ sched.isRunning) =>
                 /\ ret'.err = "nil"
                 /\ ~sched'.isRunning
         ]_vars

====
